---- MODULE Spec2Model ----
(***************************************************************************)
(* Live Share SDK: the LiveMediaSessionCoordinator (live-share-media) and  *)
(* the event channel, role verifier and group state it is built on.        *)
(*                                                                         *)
(* Every client runs one coordinator.  A coordinator owns seven event      *)
(* targets (play, pause, seekTo, setTrack, setTrackData on a role          *)
(* restricted scope; positionUpdate and joined on an unrestricted one) and *)
(* a GroupCoordinatorState.  Time is counted in whole seconds.             *)
(***************************************************************************)
EXTENDS Integers, Sequences, FiniteSets, TLC

\* ------------------------------------------------------------------ bounds
MaxTime == 2
MaxSends == 1
MaxGroupSends == 2
MaxSuspSends == 1
MaxPos == 2
MaxSusp == 2
MaxLifeSusp == 1
MaxPending == 1
MaxBlocked == 1
MaxJoinSends == 3
MaxRoles == 2
MaxSeconds == 9
MaxGetDDSCalls == 2
MaxSchemaLen == 2
MaxHostCalls == 2

\* ------------------------------------------------------- program constants
\* _maxPlaybackDrift = new TimeInterval(1000), in seconds
MaxPlaybackDrift == 1
\* _positionUpdateInterval = new TimeInterval(2000), in seconds
PositionUpdateInterval == 2

Clients == {"a", "b"}
TrackIds == {"T1", "T2"}
NoTrack == "none"
NoPos == 0 - 1
NoClient == "-"

\* Roles the host reports for each client (ILiveShareHost.getUserInfo).
HostRoles(c) == IF c = "b" THEN {"Presenter"} ELSE {"Attendee"}

\* Values of acceptTransportChangesFrom an application passes to initialize().
RoleSets == {{}, {"Presenter"}}

RestrictedKinds == {"play", "pause", "seekTo", "setTrack", "setTrackData"}
UnrestrictedKinds == {"positionUpdate", "joined"}
TransportKinds == {"play", "pause", "seekTo"}

\* What getPlayerState() can return: playbackState and positionState.position.
PlayerStates == {[pstate |-> "none", pos |-> MaxPos], [pstate |-> "paused", pos |-> 0],
                 [pstate |-> "playing", pos |-> MaxPos]}

VARIABLES
    now,            \* reference clock (LiveShareRuntime.getTimestamp)
    connected,      \* connected[c]: IRuntimeSignaler.connected with a clientId
    hasInitialized, \* hasInitialized[c]: LiveMediaSessionCoordinator._hasInitialized
    initPending,    \* initialize() calls past createChildren, before the flag is set
    allowedRoles,   \* allowedRoles[c]: LiveMediaSessionCoordinator._allowedRoles
    blocked,        \* blocked[c]: the can* flags that are currently false
    lastWaitPoint,  \* lastWaitPoint[c]: LiveMediaSessionCoordinator._lastWaitPoint
    gs,             \* gs[c]: the coordinator's GroupCoordinatorState
    openSusp,       \* openSusp[c]: suspension objects returned and not yet ended
    owedSeek,       \* owedSeek[c]: resume positions passed to end() and not sought
    pendingUpdates, \* pendingUpdates[c]: sendPositionUpdate() calls awaiting the role check
    joinedPending,  \* joinedPending[c]: createChildren() role checks not yet resolved
    inbox,          \* inbox[c]: events broadcast and not yet received by c
    missed,         \* missed[c]: an event was broadcast that c's receivers never got
    limit,          \* how many broadcasts and open suspensions the behaviours explore
    sent,           \* number of events broadcast so far
    step,           \* the last operation: its outcome, the actions it emitted to the
                    \* player and the calls it made, in order
    verify,         \* a RoleVerifier.verifyRolesAllowed call: arguments, position, result
    intervals,      \* _maxPlaybackDrift and _positionUpdateInterval of a coordinator,
                    \* in milliseconds
    containerId,    \* the host's container id mapping of the context
    joins,          \* joins[c]: client c's LiveShareClient.joinContainer call
    dynamicObjects, \* unique keys the container's DynamicObjectManager was asked for
    dds,            \* dds[c]: client c's FluidTurboClient.getDDS call
    schemaProxy,    \* a getLiveShareContainerSchemaProxy call: schema, registry, result
    liveShareHost,  \* the static LiveShareClient.host
    clientHosts     \* clientHosts[c]: the host client c was constructed with and the
                    \* hosts its calls reached

\* The coordinators' variables and those of the client classes.
CoordinatorVars == <<now, connected, hasInitialized, initPending, allowedRoles, blocked,
                     lastWaitPoint, gs, openSusp, owedSeek, pendingUpdates, joinedPending,
                     inbox, missed, limit, sent, step>>
VerifyVars == <<verify>>
IntervalVars == <<intervals>>
JoinVars == <<containerId, joins>>
DdsVars == <<dynamicObjects, dds>>
ProxyVars == <<schemaProxy>>
HostVars == <<liveShareHost, clientHosts>>
ClientVars == <<VerifyVars, IntervalVars, JoinVars, DdsVars, ProxyVars, HostVars>>

vars == <<CoordinatorVars, ClientVars>>

\* No call of the client classes is under way.
NoVerify == [pc |-> "idle", clientId |-> "", allowedRoles |-> <<>>, hasInfo |-> FALSE,
             info |-> <<>>, roles |-> <<>>, i |-> 0, result |-> "none"]

\* new TimeInterval(1000), new TimeInterval(2000)
DefaultIntervals == [maxPlaybackDrift |-> 1000, positionUpdateInterval |-> 2000]

\* The context has no container and no client has called joinContainer.
NoContainer == 0
NoJoin == [pc |-> "idle", tries |-> 0, lookups |-> 0, container |-> NoContainer,
           created |-> "none", callbacks |-> 0]

JoinsIdle == containerId = NoContainer /\ joins = [c \in Clients |-> NoJoin]

NoKey == ""
NoGetDDS == [pc |-> "idle", results |-> FALSE, connectionState |-> "Disconnected",
             awaitConnectedPromise |-> "undefined", calls |-> 0,
             objectKey |-> NoKey, objectClass |-> NoKey, returned |-> <<>>,
             touched |-> "no", asked |-> 0, callbacks |-> 0]
DdsIdle == dynamicObjects = {} /\ dds = [c \in Clients |-> NoGetDDS]

NoSchemaProxy == [pc |-> "idle", initialObjects |-> <<>>, dynamicObjectTypes |-> <<>>,
                  existingProxyRegistries |-> {}, newInitialObjects |-> <<>>,
                  newDynamicObjectTypes |-> <<>>, proxied |-> 0]
ProxyIdle == schemaProxy = NoSchemaProxy

NoHost == "none"
\* new PolyfillHostDecorator(new LiveShareHostDecorator(host))
Decorated(host) == [decorator |-> "PolyfillHostDecorator(LiveShareHostDecorator)", host |-> host]
\* private static _host = TestLiveShareHost.create(undefined, undefined)
DefaultHost == [decorator |-> "none", host |-> "TestLiveShareHost"]
NoClientHost == [host |-> NoHost, constructed |-> "no", used |-> {}, calls |-> 0]
HostsIdle == liveShareHost = DefaultHost /\ clientHosts = [c \in Clients |-> NoClientHost]

ClientsIdle ==
    /\ verify = NoVerify /\ intervals = DefaultIntervals /\ JoinsIdle /\ DdsIdle
    /\ ProxyIdle /\ HostsIdle

\* ------------------------------------------------------------ plain helpers
Max(x, y) == IF x >= y THEN x ELSE y
Abs(x) == IF x >= 0 THEN x ELSE 0 - x

\* Sorted sequence of the values taken by f over the finite set S (with repeats).
RECURSIVE SortedBy(_, _)
SortedBy(S, f) ==
    IF S = {} THEN <<>>
    ELSE LET m == CHOOSE x \in S : \A y \in S : f[x] <= f[y]
         IN <<f[m]>> \o SortedBy(S \ {m}, f)

\* ------------------------------------------------------- events and actions
\* An event as the transport delivers it: envelope {clientId, timestamp, name}
\* and the payload fields of every kind (unused fields hold their null value).
Evt(kind, sender, ts, track, pos, wps, data, pstate, wait) ==
    [kind |-> kind, sender |-> sender, ts |-> ts, track |-> track, pos |-> pos,
     wps |-> wps, data |-> data, pstate |-> pstate, wait |-> wait]

NoEvt == Evt("none", NoClient, 0, NoTrack, 0, {}, "null", "none", NoPos)

\* An action event handed to the media player binding.
Act(name, pos, track) == [name |-> name, pos |-> pos, track |-> track]

ActionNames == {"play", "pause", "seekTo", "catchup", "loadTrack"}

\* ------------------------------------------------------------ role verifier
\* RoleVerifier.verifyRolesAllowed: every role is allowed when the list is
\* empty, otherwise the client needs one of the listed roles.
VerifyRolesAllowed(clientId, allowed) ==
    IF allowed # {}
    THEN \E r \in allowed : r \in HostRoles(clientId)
    ELSE TRUE

\* ------------------------------------------------------------- group state
NoRec == [present |-> FALSE, pstate |-> "none", pos |-> 0, ts |-> 0, wait |-> NoPos]

NewGroupState ==
    [created |-> TRUE,
     track |-> NoTrack, trackTs |-> 0, trackSender |-> NoClient,
     waitPoints |-> {}, consumed |-> {}, loaded |-> NoTrack,
     trackData |-> "null", dataTs |-> 0, dataSender |-> NoClient,
     cmdTs |-> 0, cmdSender |-> NoClient, cmdPos |-> 0,
     records |-> [c \in Clients |-> NoRec],
     suspCnt |-> 0, isWaiting |-> FALSE, waitAt |-> NoPos,
     playbackState |-> "paused"]

NoGroupState == [NewGroupState EXCEPT !.created = FALSE]

\* Order of sender ids ("a" < "b").
SenderRank(c) == IF c = "a" THEN 1 ELSE IF c = "b" THEN 2 ELSE 3

NewerLastArrival(ts, sender, curTs, curSender) == ts >= curTs

\* (ts, sender) wins over (curTs, curSender): later timestamp, and on equal
\* timestamps the lexicographically smaller sender id.
Newer(ts, sender, curTs, curSender) ==
    \/ ts > curTs
    \/ ts = curTs /\ SenderRank(sender) < SenderRank(curSender)

\* Projection of a peer record to time t.
Project(rec, t) ==
    IF rec.pstate = "playing" THEN Max(0, rec.pos + (t - rec.ts)) ELSE Max(0, rec.pos)

PlayingPeers(g) == {c \in Clients : g.records[c].present /\ g.records[c].pstate = "playing"}

\* Median of the playing peers' projected positions (the lower of the two
\* middle values when their number is even); the position of the last
\* transport command when nobody plays.
GroupPosition(g, t) ==
    IF PlayingPeers(g) = {} THEN g.cmdPos
    ELSE LET s == SortedBy(PlayingPeers(g), [c \in Clients |-> Project(g.records[c], t)])
         IN s[(Len(s) + 1) \div 2]

\* While suspended the group state emits no local action.
Gate(g, acts) == IF g.suspCnt > 0 THEN <<>> ELSE acts

Result(g, emitted) == [g |-> g, emitted |-> emitted]

HandleSetTrackPauseFirst(g, e) ==
    IF e.track = g.track
    THEN IF Newer(e.ts, e.sender, g.trackTs, g.trackSender)
         THEN Result([g EXCEPT !.waitPoints = e.wps, !.trackTs = e.ts,
                               !.trackSender = e.sender], <<>>)
         ELSE Result(g, <<>>)
    ELSE Result([g EXCEPT !.track = e.track, !.trackTs = e.ts, !.trackSender = e.sender,
                          !.waitPoints = IF e.track = NoTrack THEN {} ELSE e.wps,
                          !.consumed = {}, !.trackData = "null",
                          !.loaded = IF g.suspCnt > 0 THEN g.loaded ELSE e.track],
                Gate(g, <<Act("pause", 0, e.track), Act("loadTrack", 0, e.track)>>))

\* PlaybackTrack.set_current as used by the setTrack receiver.
HandleSetTrack(g, e) ==
    IF e.track = g.track
    THEN IF Newer(e.ts, e.sender, g.trackTs, g.trackSender)
         THEN Result([g EXCEPT !.waitPoints = e.wps, !.trackTs = e.ts,
                               !.trackSender = e.sender], <<>>)
         ELSE Result(g, <<>>)
    ELSE Result([g EXCEPT !.track = e.track, !.trackTs = e.ts, !.trackSender = e.sender,
                          !.waitPoints = IF e.track = NoTrack THEN {} ELSE e.wps,
                          !.consumed = {}, !.trackData = "null",
                          !.loaded = IF g.suspCnt > 0 THEN g.loaded ELSE e.track],
                Gate(g, <<Act("loadTrack", 0, e.track), Act("pause", 0, e.track)>>))

HandleSetTrackData(g, e) ==
    IF Newer(e.ts, e.sender, g.dataTs, g.dataSender)
    THEN Result([g EXCEPT !.trackData = e.data, !.dataTs = e.ts, !.dataSender = e.sender],
                Gate(g, <<Act("trackData", 0, g.track)>>))
    ELSE Result(g, <<>>)

HandleTransportCommandNoTrackCheck(g, e, self, t) ==
    IF \/ g.suspCnt > 0
       \/ ~Newer(e.ts, e.sender, g.cmdTs, g.cmdSender)
    THEN Result(g, <<>>)
    ELSE LET own == g.records[self]
             newState == CASE e.kind = "play" -> "playing"
                           [] e.kind = "pause" -> "paused"
                           [] OTHER -> IF own.present THEN own.pstate ELSE "paused"
             ahead == e.sender # self /\ e.pos - Project(own, t) > MaxPlaybackDrift
         IN Result([g EXCEPT !.cmdTs = e.ts, !.cmdSender = e.sender, !.cmdPos = e.pos,
                             !.records[self] = [present |-> TRUE, pstate |-> newState,
                                                pos |-> e.pos, ts |-> e.ts,
                                                wait |-> own.wait]],
                   IF e.kind = "play" /\ ahead
                   THEN <<Act("catchup", e.pos, g.track)>>
                   ELSE <<Act(e.kind, e.pos, g.track)>>)

HandleTransportCommand(g, e, self, t) ==
    IF \/ e.track # g.track
       \/ g.suspCnt > 0
       \/ ~Newer(e.ts, e.sender, g.cmdTs, g.cmdSender)
    THEN Result(g, <<>>)
    ELSE LET own == g.records[self]
             newState == CASE e.kind = "play" -> "playing"
                           [] e.kind = "pause" -> "paused"
                           [] OTHER -> IF own.present THEN own.pstate ELSE "paused"
             ahead == e.sender # self /\ e.pos - Project(own, t) > MaxPlaybackDrift
         IN Result([g EXCEPT !.cmdTs = e.ts, !.cmdSender = e.sender, !.cmdPos = e.pos,
                             !.records[self] = [present |-> TRUE, pstate |-> newState,
                                                pos |-> e.pos, ts |-> e.ts,
                                                wait |-> own.wait]],
                   IF e.kind = "play" /\ ahead
                   THEN <<Act("catchup", e.pos, g.track)>>
                   ELSE <<Act(e.kind, e.pos, g.track)>>)

\* maxClients configured for the wait point at position p (0: not set).
MaxClientsOf(g, p) ==
    LET ms == {w.maxClients : w \in {x \in g.waitPoints : x.position = p /\ x.maxClients > 0}}
    IN IF ms = {} THEN 0 ELSE CHOOSE m \in ms : \A n \in ms : m <= n

HandlePositionUpdateOverwrite(g, e, self, player, t, online, roleOk) ==
    IF FALSE
    THEN Result(g, <<>>)
    ELSE LET g1 == [g EXCEPT !.records[e.sender] =
                        [present |-> TRUE, pstate |-> e.pstate, pos |-> e.pos,
                         ts |-> e.ts, wait |-> e.wait]]
             peers == {c \in Clients : c \in online \/ g1.records[c].present}
             WaitersAt(p) == {c \in peers : g1.records[c].present /\ g1.records[c].wait = p}
             candidates == {p \in 0..MaxPos : p \notin g1.consumed /\ WaitersAt(p) # {}}
             Released(p) == \/ WaitersAt(p) = peers
                            \/ /\ MaxClientsOf(g1, p) > 0
                               /\ Cardinality(WaitersAt(p)) >= MaxClientsOf(g1, p)
             released == {p \in candidates : Released(p)}
             holding == candidates \ released
             wp == CHOOSE p \in holding : \A q \in holding : p <= q
             majority == 2 * Cardinality(PlayingPeers(g1)) > Cardinality({c \in Clients : g1.records[c].present})
             g2 == [g1 EXCEPT !.consumed = g1.consumed \cup released,
                              !.isWaiting = holding # {},
                              !.waitAt = IF holding # {} THEN wp ELSE NoPos,
                              !.playbackState = IF holding = {} /\ majority
                                                THEN "playing" ELSE "paused"]
             gp == GroupPosition(g2, t)
             decide == IF holding # {}
                       THEN IF player.pos > wp THEN <<Act("seekTo", wp, g.track)>> ELSE <<>>
                       ELSE IF majority /\ player.pstate # "playing" /\ roleOk
                            THEN <<Act("play", gp, g.track)>>
                            ELSE <<>>
             drift == IF /\ player.pstate = "playing"
                         /\ PlayingPeers(g2) # {}
                         /\ Abs(player.pos - gp) > MaxPlaybackDrift
                      THEN <<Act("catchup", gp, g.track)>>
                      ELSE <<>>
         IN Result(g2, Gate(g2, decide \o drift))

HandlePositionUpdateEagerCatchup(g, e, self, player, t, online, roleOk) ==
    IF g.records[e.sender].present /\ e.ts <= g.records[e.sender].ts
    THEN Result(g, <<>>)
    ELSE LET g1 == [g EXCEPT !.records[e.sender] =
                        [present |-> TRUE, pstate |-> e.pstate, pos |-> e.pos,
                         ts |-> e.ts, wait |-> e.wait]]
             peers == {c \in Clients : c \in online \/ g1.records[c].present}
             WaitersAt(p) == {c \in peers : g1.records[c].present /\ g1.records[c].wait = p}
             candidates == {p \in 0..MaxPos : p \notin g1.consumed /\ WaitersAt(p) # {}}
             Released(p) == \/ WaitersAt(p) = peers
                            \/ /\ MaxClientsOf(g1, p) > 0
                               /\ Cardinality(WaitersAt(p)) >= MaxClientsOf(g1, p)
             released == {p \in candidates : Released(p)}
             holding == candidates \ released
             wp == CHOOSE p \in holding : \A q \in holding : p <= q
             majority == 2 * Cardinality(PlayingPeers(g1)) > Cardinality({c \in Clients : g1.records[c].present})
             g2 == [g1 EXCEPT !.consumed = g1.consumed \cup released,
                              !.isWaiting = holding # {},
                              !.waitAt = IF holding # {} THEN wp ELSE NoPos,
                              !.playbackState = IF holding = {} /\ majority
                                                THEN "playing" ELSE "paused"]
             gp == GroupPosition(g2, t)
             decide == IF holding # {}
                       THEN IF player.pos > wp THEN <<Act("seekTo", wp, g.track)>> ELSE <<>>
                       ELSE IF majority /\ player.pstate # "playing" /\ roleOk
                            THEN <<Act("play", gp, g.track)>>
                            ELSE <<>>
             drift == IF /\ player.pstate = "playing"
                         /\ PlayingPeers(g2) # {}
                         /\ Abs(player.pos - gp) >= MaxPlaybackDrift
                      THEN <<Act("catchup", gp, g.track)>>
                      ELSE <<>>
         IN Result(g2, Gate(g2, decide \o drift))

HandlePositionUpdate(g, e, self, player, t, online, roleOk) ==
    IF g.records[e.sender].present /\ e.ts <= g.records[e.sender].ts
    THEN Result(g, <<>>)
    ELSE LET g1 == [g EXCEPT !.records[e.sender] =
                        [present |-> TRUE, pstate |-> e.pstate, pos |-> e.pos,
                         ts |-> e.ts, wait |-> e.wait]]
             peers == {c \in Clients : c \in online \/ g1.records[c].present}
             WaitersAt(p) == {c \in peers : g1.records[c].present /\ g1.records[c].wait = p}
             candidates == {p \in 0..MaxPos : p \notin g1.consumed /\ WaitersAt(p) # {}}
             Released(p) == \/ WaitersAt(p) = peers
                            \/ /\ MaxClientsOf(g1, p) > 0
                               /\ Cardinality(WaitersAt(p)) >= MaxClientsOf(g1, p)
             released == {p \in candidates : Released(p)}
             holding == candidates \ released
             wp == CHOOSE p \in holding : \A q \in holding : p <= q
             majority == 2 * Cardinality(PlayingPeers(g1)) > Cardinality({c \in Clients : g1.records[c].present})
             g2 == [g1 EXCEPT !.consumed = g1.consumed \cup released,
                              !.isWaiting = holding # {},
                              !.waitAt = IF holding # {} THEN wp ELSE NoPos,
                              !.playbackState = IF holding = {} /\ majority
                                                THEN "playing" ELSE "paused"]
             gp == GroupPosition(g2, t)
             decide == IF holding # {}
                       THEN IF player.pos > wp THEN <<Act("seekTo", wp, g.track)>> ELSE <<>>
                       ELSE IF majority /\ player.pstate # "playing" /\ roleOk
                            THEN <<Act("play", gp, g.track)>>
                            ELSE <<>>
             drift == IF /\ player.pstate = "playing"
                         /\ PlayingPeers(g2) # {}
                         /\ Abs(player.pos - gp) > MaxPlaybackDrift
                      THEN <<Act("catchup", gp, g.track)>>
                      ELSE <<>>
         IN Result(g2, Gate(g2, decide \o drift))

\* The wait point a position update reports: the one the client waits at, or
\* the lowest unconsumed wait point of the track the player has reached.
ReachedWaitPoint(g, player) ==
    LET ps == {w.position : w \in {x \in g.waitPoints :
                    x.position \notin g.consumed /\ x.position <= player.pos}}
    IN IF g.isWaiting THEN g.waitAt
       ELSE IF ps = {} THEN NoPos
       ELSE CHOOSE p \in ps : \A q \in ps : p <= q

CreatePositionUpdateEvent(g, self, player, t) ==
    Evt("positionUpdate", self, t, g.track, player.pos, {}, g.trackData,
        player.pstate, ReachedWaitPoint(g, player))

\* sync_local: set track if changed, set position, then play or pause.
SyncLocalMediaSession(g, t) ==
    LET gp == GroupPosition(g, t)
        acts == (IF g.loaded # g.track THEN <<Act("loadTrack", 0, g.track)>> ELSE <<>>)
                \o <<Act("seekTo", gp, g.track)>>
                \o <<Act(IF g.playbackState = "playing" THEN "play" ELSE "pause", gp, g.track)>>
    IN Result([g EXCEPT !.loaded = IF g.suspCnt > 0 THEN g.loaded ELSE g.track],
              Gate(g, acts))

GroupBeginSuspension(g, hasWaitPoint, waitPoint) ==
    [g EXCEPT !.suspCnt = g.suspCnt + 1,
              !.waitPoints = IF hasWaitPoint THEN g.waitPoints \cup {waitPoint}
                             ELSE g.waitPoints]

\* endSuspension(flag): the last suspension to end re-applies the group state.
GroupEndSuspension(g, flag, t) ==
    LET g1 == [g EXCEPT !.suspCnt = Max(0, g.suspCnt - 1)]
    IN IF g1.suspCnt = 0 /\ g.suspCnt > 0
       THEN LET r == SyncLocalMediaSession(g1, t)
            IN [g |-> r.g, emitted |-> r.emitted, synced |-> TRUE]
       ELSE [g |-> g1, emitted |-> <<>>, synced |-> FALSE]

\* -------------------------------------------------------------- event scope
\* createChildren: the scope each event target is created on.
ScopeOfUnrestricted(kind) == "unrestricted"

ScopeOf(kind) ==
    IF kind \in {"positionUpdate", "joined"} THEN "unrestricted" ELSE "restricted"

\* Roles a scope of coordinator c checks senders against.
ScopeRoles(c, kind) == IF ScopeOf(kind) = "restricted" THEN allowedRoles[c] ELSE {}

\* LiveEventScope, inbound: an event is handed to its receiver only when the
\* sender holds one of the scope's roles.
ScopeAccepts(c, e) == VerifyRolesAllowed(e.sender, ScopeRoles(c, e.kind))

\* LiveEventScope.sendEvent, outbound: refused when the local client lacks the
\* scope's roles; otherwise the transport accepts or rejects the send.
SendOutcomes(c, kind) ==
    IF ~VerifyRolesAllowed(c, ScopeRoles(c, kind)) THEN {"RoleDenied"}
    ELSE {"ok", "TransportError"}

\* Clients whose event targets are listening on a connected runtime.
Listeners == {c \in Clients : gs[c].created /\ connected[c]}

Online == {c \in Clients : connected[c]}

Deposit(e) == [c \in Clients |-> IF c \in Listeners THEN inbox[c] \cup {e} ELSE inbox[c]]

\* The transport broadcasts e to every listening client, the sender included.
Broadcast(e) ==
    /\ sent < limit.sends
    /\ inbox' = Deposit(e)
    /\ sent' = sent + 1
    /\ missed' = [c \in Clients |-> missed[c] \/ c \notin Listeners]

NoBroadcast == UNCHANGED <<inbox, sent, missed>>

St(result, emitted, calls, inner) ==
    [result |-> result, emitted |-> emitted, calls |-> calls, inner |-> inner]

\* getPlayerPosition
GetPlayerPosition(player) ==
    IF player.pstate \in {"none", "ended"} THEN 0 ELSE player.pos

\* The checks every public method starts with, in their order.
PreCheckNoInit(c, needTrack, flag) ==
    IF needTrack /\ gs[c].track = NoTrack THEN "NoTrack"
    ELSE IF flag \in blocked[c] THEN "Blocked"
    ELSE "ok"

PreCheckNoTrack(c, needTrack, flag) ==
    IF ~hasInitialized[c] THEN "NotInitialized"
    ELSE IF flag \in blocked[c] THEN "Blocked"
    ELSE "ok"

PreCheckFlagFirst(c, needTrack, flag) ==
    IF ~hasInitialized[c] THEN "NotInitialized"
    ELSE IF flag \in blocked[c] THEN "Blocked"
    ELSE IF needTrack /\ gs[c].track = NoTrack THEN "NoTrack"
    ELSE "ok"

PreCheck(c, needTrack, flag) ==
    IF ~hasInitialized[c] THEN "NotInitialized"
    ELSE IF needTrack /\ gs[c].track = NoTrack THEN "NoTrack"
    ELSE IF flag \in blocked[c] THEN "Blocked"
    ELSE "ok"

Flags == {"canPlayPause", "canSeek", "canSetTrack", "canSetTrackData"}

ResumeTimes == {MaxPos}

\* ---------------------------------------------------------------- initial
\* The group state of a member that has received setTrack(T1, waitPoints)
\* and nothing else.
LoadedGroupState(waitPoints) ==
    HandleSetTrack(NewGroupState,
                   Evt("setTrack", "b", 1, "T1", 0, waitPoints, "null", "none", NoPos)).g

\* Client "a" has just constructed its coordinator; the other clients are
\* members of the session already, initialized with some role list.
Newcomer == "a"

Init ==
    /\ now = 1
    /\ connected = [c \in Clients |-> c # Newcomer]
    /\ hasInitialized = [c \in Clients |-> c # Newcomer]
    /\ initPending = [c \in Clients |-> 0]
    /\ \E roles \in RoleSets :
          allowedRoles = [c \in Clients |-> IF c = Newcomer THEN {} ELSE roles]
    /\ blocked = [c \in Clients |-> {}]
    /\ lastWaitPoint = [c \in Clients |-> NoPos]
    /\ gs = [c \in Clients |-> IF c = Newcomer THEN NoGroupState
                                ELSE LoadedGroupState({})]
    /\ openSusp = [c \in Clients |-> 0]
    /\ owedSeek = [c \in Clients |-> {}]
    /\ pendingUpdates = [c \in Clients |-> <<>>]
    /\ joinedPending = [c \in Clients |-> 0]
    /\ inbox = [c \in Clients |-> {}]
    /\ missed = [c \in Clients |-> FALSE]
    /\ limit = [sends |-> MaxSends, susp |-> MaxLifeSusp, pending |-> MaxPending]
    /\ sent = 0
    /\ step = St("ok", <<>>, <<>>, "none")
    /\ ClientsIdle

\* ------------------------------------------------------------ environment
Tick ==
    /\ now < MaxTime
    /\ now' = now + 1
    /\ step' = St("ok", <<>>, <<>>, "none")
    /\ UNCHANGED <<connected, hasInitialized, initPending, allowedRoles, blocked,
                   lastWaitPoint, gs, openSusp, owedSeek, pendingUpdates,
                   joinedPending, inbox, missed, limit, sent,
                   ClientVars>>

\* The runtime's "connected" signal.
Connect(c) ==
    /\ ~connected[c]
    /\ connected' = [connected EXCEPT ![c] = TRUE]
    /\ step' = St("ok", <<>>, <<>>, "none")
    /\ UNCHANGED <<now, hasInitialized, initPending, allowedRoles, blocked,
                   lastWaitPoint, gs, openSusp, owedSeek, pendingUpdates,
                   joinedPending, inbox, missed, limit, sent,
                   ClientVars>>

\* The application assigns the can* flags.
SetCan(c, off) ==
    /\ Cardinality(off) <= MaxBlocked
    /\ off # blocked[c]
    /\ blocked' = [blocked EXCEPT ![c] = off]
    /\ step' = St("ok", <<>>, <<>>, "none")
    /\ UNCHANGED <<now, connected, hasInitialized, initPending, allowedRoles,
                   lastWaitPoint, gs, openSusp, owedSeek, pendingUpdates,
                   joinedPending, inbox, missed, limit, sent,
                   ClientVars>>

\* ------------------------------------------------------------- initialize
\* initialize() up to its await: the check and createChildren().
InitializeBegin(c, roles) ==
    /\ initPending[c] < 2
    /\ IF hasInitialized[c]
       THEN /\ step' = St("AlreadyInitialized", <<>>, <<>>, "none")
            /\ UNCHANGED <<allowedRoles, gs, joinedPending, initPending>>
       ELSE /\ allowedRoles' = [allowedRoles EXCEPT ![c] = roles]
            /\ gs' = [gs EXCEPT ![c] = NewGroupState]
            /\ joinedPending' = [joinedPending EXCEPT ![c] = @ + 1]
            /\ initPending' = [initPending EXCEPT ![c] = @ + 1]
            /\ step' = St("ok", <<>>, <<>>, "none")
    /\ UNCHANGED <<now, connected, hasInitialized, blocked, lastWaitPoint, openSusp,
                   owedSeek, pendingUpdates, inbox, missed, limit, sent,
                   ClientVars>>

\* initialize() after its await: this._hasInitialized = true.
InitializeComplete(c) ==
    /\ initPending[c] > 0
    /\ initPending' = [initPending EXCEPT ![c] = @ - 1]
    /\ hasInitialized' = [hasInitialized EXCEPT ![c] = TRUE]
    /\ step' = St("ok", <<>>, <<>>, "none")
    /\ UNCHANGED <<now, connected, allowedRoles, blocked, lastWaitPoint, gs, openSusp,
                   owedSeek, pendingUpdates, joinedPending, inbox, missed, limit, sent,
                   ClientVars>>

\* createChildren(): verifyLocalUserRoles().then(send the joined event).
SendJoined(c) ==
    /\ joinedPending[c] > 0
    /\ connected[c]
    /\ joinedPending' = [joinedPending EXCEPT ![c] = @ - 1]
    /\ \E out \in (IF VerifyRolesAllowed(c, allowedRoles[c])
                   THEN SendOutcomes(c, "joined") ELSE {"notVerified"}) :
         LET e == Evt("joined", c, now, NoTrack, 0, {}, "null", "none", NoPos)
         IN IF out = "ok"
            THEN /\ Broadcast(e)
                 /\ step' = St("ok", <<>>, <<>>, "none")
            ELSE /\ step' = St(out, <<>>, <<>>, "none")
                 /\ NoBroadcast
    /\ UNCHANGED <<now, connected, hasInitialized, initPending, allowedRoles, blocked,
                   lastWaitPoint, gs, openSusp, owedSeek, pendingUpdates, limit,
                   ClientVars>>

\* ---------------------------------------------------------- public methods
\* The tail shared by play(), pause(), setTrack() and setTrackData(): the
\* method throws chk, or awaits sendEvent(e) and throws what it throws.
SendCommandSwallow(c, op, e, chk) ==
    /\ IF chk # "ok"
       THEN /\ step' = St(chk, <<>>, <<>>, "none")
            /\ NoBroadcast
       ELSE /\ connected[c]
            /\ \E out \in SendOutcomes(c, e.kind) :
                 IF out = "ok"
                 THEN /\ Broadcast(e)
                      /\ step' = St("ok", <<>>, <<>>, "none")
                 ELSE /\ step' = St("ok", <<>>, <<>>, "none")
                      /\ NoBroadcast
    /\ UNCHANGED <<now, connected, hasInitialized, initPending, allowedRoles, blocked,
                   lastWaitPoint, gs, openSusp, owedSeek, pendingUpdates,
                   joinedPending, limit,
                   ClientVars>>

SendCommand(c, op, e, chk) ==
    /\ IF chk # "ok"
       THEN /\ step' = St(chk, <<>>, <<>>, "none")
            /\ NoBroadcast
       ELSE /\ connected[c]
            /\ \E out \in SendOutcomes(c, e.kind) :
                 IF out = "ok"
                 THEN /\ Broadcast(e)
                      /\ step' = St("ok", <<>>, <<>>, "none")
                 ELSE /\ step' = St(out, <<>>, <<>>, "none")
                      /\ NoBroadcast
    /\ UNCHANGED <<now, connected, hasInitialized, initPending, allowedRoles, blocked,
                   lastWaitPoint, gs, openSusp, owedSeek, pendingUpdates,
                   joinedPending, limit,
                   ClientVars>>

Play(c) ==
    \E player \in PlayerStates :
        SendCommand(c, "play",
                    Evt("play", c, now, gs[c].track, GetPlayerPosition(player), {},
                        "null", "none", NoPos),
                    PreCheck(c, TRUE, "canPlayPause"))

Pause(c) ==
    \E player \in PlayerStates :
        SendCommand(c, "pause",
                    Evt("pause", c, now, gs[c].track, GetPlayerPosition(player), {},
                        "null", "none", NoPos),
                    PreCheck(c, TRUE, "canPlayPause"))

SetTrack(c, metadata, waitPoints) ==
    SendCommand(c, "setTrack",
                Evt("setTrack", c, now, metadata, 0, waitPoints, "null", "none", NoPos),
                PreCheck(c, FALSE, "canSetTrack"))

SetTrackData(c, data) ==
    SendCommand(c, "setTrackData",
                Evt("setTrackData", c, now, gs[c].track, 0, {}, data, "none", NoPos),
                PreCheck(c, FALSE, "canSetTrackData"))

\* seekTo(time) run on group state g with send outcome out: what it throws,
\* the group state it leaves, what the player is told and the calls it makes.
SeekToRunNoSync(c, g, time, out) ==
    LET chk == PreCheck(c, TRUE, "canSeek")
    IN IF chk # "ok"
       THEN [result |-> chk, g |-> g, emitted |-> <<>>, calls |-> <<>>, evt |-> NoEvt]
       ELSE IF out = "ok"
       THEN [result |-> "ok", g |-> g, emitted |-> <<>>, calls |-> <<>>,
             evt |-> Evt("seekTo", c, now, g.track, time, {}, "null", "none", NoPos)]
       ELSE [result |-> out, g |-> g, emitted |-> <<>>,
             calls |-> <<"throw">>, evt |-> NoEvt]

SeekToRun(c, g, time, out) ==
    LET chk == PreCheck(c, TRUE, "canSeek")
    IN IF chk # "ok"
       THEN [result |-> chk, g |-> g, emitted |-> <<>>, calls |-> <<>>, evt |-> NoEvt]
       ELSE IF out = "ok"
       THEN [result |-> "ok", g |-> g, emitted |-> <<>>, calls |-> <<>>,
             evt |-> Evt("seekTo", c, now, g.track, time, {}, "null", "none", NoPos)]
       ELSE LET r == SyncLocalMediaSession(g, now)
            IN [result |-> out, g |-> r.g, emitted |-> r.emitted,
                calls |-> <<"syncLocalMediaSession", "throw">>,
                evt |-> NoEvt]

\* Send outcomes seekTo() can meet: none is drawn when a check throws first.
SeekOutcomes(c) ==
    IF PreCheck(c, TRUE, "canSeek") = "ok" THEN SendOutcomes(c, "seekTo") ELSE {"none"}

SeekTo(c, time) ==
    /\ \E out \in SeekOutcomes(c) :
         LET r == SeekToRun(c, gs[c], time, out)
         IN /\ out # "none" => connected[c]
            /\ IF r.result = "ok"
               THEN /\ Broadcast(r.evt)
               ELSE NoBroadcast
            /\ gs' = [gs EXCEPT ![c] = r.g]
            /\ step' = St(r.result, r.emitted, r.calls, "none")
    /\ UNCHANGED <<now, connected, hasInitialized, initPending, allowedRoles, blocked,
                   lastWaitPoint, openSusp, owedSeek, pendingUpdates, joinedPending,
                   limit,
                   ClientVars>>

\* ------------------------------------------------------------- suspensions
\* beginSuspension(waitPoint) run on group state g: what it throws, the
\* group state and the _lastWaitPoint it leaves.
BeginSuspensionRunEager(c, g, hasWaitPoint, waitPoint) ==
    LET chk == PreCheck(c, TRUE, "none")
    IN [result |-> chk,
        g |-> GroupBeginSuspension(g, hasWaitPoint, waitPoint),
        lastWaitPoint |-> IF hasWaitPoint THEN waitPoint.position ELSE lastWaitPoint[c]]

BeginSuspensionRunNoGroup(c, g, hasWaitPoint, waitPoint) ==
    LET chk == PreCheck(c, TRUE, "none")
    IN IF chk # "ok"
       THEN [result |-> chk, g |-> g, lastWaitPoint |-> lastWaitPoint[c]]
       ELSE [result |-> "ok", g |-> g,
             lastWaitPoint |-> IF hasWaitPoint THEN waitPoint.position
                               ELSE lastWaitPoint[c]]

BeginSuspensionRunOnce(c, g, hasWaitPoint, waitPoint) ==
    LET chk == PreCheck(c, TRUE, "none")
    IN IF chk # "ok"
       THEN [result |-> chk, g |-> g, lastWaitPoint |-> lastWaitPoint[c]]
       ELSE [result |-> "ok",
             g |-> IF g.suspCnt > 0 THEN g
                   ELSE GroupBeginSuspension(g, hasWaitPoint, waitPoint),
             lastWaitPoint |-> IF hasWaitPoint THEN waitPoint.position
                               ELSE lastWaitPoint[c]]

BeginSuspensionRun(c, g, hasWaitPoint, waitPoint) ==
    LET chk == PreCheck(c, TRUE, "none")
    IN IF chk # "ok"
       THEN [result |-> chk, g |-> g, lastWaitPoint |-> lastWaitPoint[c]]
       ELSE [result |-> "ok",
             g |-> GroupBeginSuspension(g, hasWaitPoint, waitPoint),
             lastWaitPoint |-> IF hasWaitPoint THEN waitPoint.position
                               ELSE lastWaitPoint[c]]

BeginSuspension(c, hasWaitPoint, waitPoint) ==
    LET r == BeginSuspensionRun(c, gs[c], hasWaitPoint, waitPoint)
        e == Evt("setTrack", c, now, gs[c].track, 0, gs[c].waitPoints \cup {waitPoint},
                 "null", "none", NoPos)
    IN /\ gs' = [gs EXCEPT ![c] = r.g]
       /\ lastWaitPoint' = [lastWaitPoint EXCEPT ![c] = r.lastWaitPoint]
       /\ IF r.result # "ok"
          THEN /\ step' = St(r.result, <<>>, <<>>, "none")
               /\ NoBroadcast
               /\ UNCHANGED openSusp
          ELSE /\ openSusp[c] < limit.susp
               /\ openSusp' = [openSusp EXCEPT ![c] = @ + 1]
               \* the dynamic wait point is broadcast to the group
               /\ \E out \in (IF hasWaitPoint /\ connected[c]
                              THEN SendOutcomes(c, "setTrack") ELSE {"none"}) :
                    /\ step' = St("ok", <<>>, <<"beginSuspension">>, out)
                    /\ IF out = "ok" THEN Broadcast(e) ELSE NoBroadcast
       /\ UNCHANGED <<now, connected, hasInitialized, initPending, allowedRoles,
                      blocked, owedSeek, pendingUpdates, joinedPending, limit,
                   ClientVars>>

\* Suspension.end(time), the callback beginSuspension() gave the suspension,
\* run on group state g; out is the outcome of the send of the seekTo() it
\* may call.
EndSuspensionRunAlwaysSeek(c, g, hasTime, time, out) ==
    LET r == GroupEndSuspension(g, ~hasTime, now)
        ended == <<"endSuspension">>
                 \o (IF r.synced THEN <<"syncLocalMediaSession">> ELSE <<>>)
    IN IF hasTime
       THEN LET sk == SeekToRun(c, r.g, Max(time, 0), out)
            IN [g |-> sk.g, emitted |-> r.emitted \o sk.emitted,
                calls |-> ended \o <<"seekTo">> \o sk.calls,
                inner |-> sk.result, evt |-> sk.evt, sought |-> TRUE]
       ELSE [g |-> r.g, emitted |-> r.emitted, calls |-> ended,
             inner |-> "none", evt |-> NoEvt, sought |-> FALSE]

EndSuspensionRunSeekFirst(c, g, hasTime, time, out) ==
    LET doSeek == hasTime /\ ~(g.suspCnt > 1) /\ ~g.isWaiting
        sk == SeekToRun(c, g, Max(time, 0), out)
        g1 == IF doSeek THEN sk.g ELSE g
        r == GroupEndSuspension(g1, ~hasTime, now)
        ended == <<"endSuspension">>
                 \o (IF r.synced THEN <<"syncLocalMediaSession">> ELSE <<>>)
    IN IF doSeek
       THEN [g |-> r.g, emitted |-> sk.emitted \o r.emitted,
             calls |-> <<"seekTo">> \o sk.calls \o ended,
             inner |-> sk.result, evt |-> sk.evt, sought |-> TRUE]
       ELSE [g |-> r.g, emitted |-> r.emitted, calls |-> ended,
             inner |-> "none", evt |-> NoEvt, sought |-> FALSE]

EndSuspensionRun(c, g, hasTime, time, out) ==
    LET r == GroupEndSuspension(g, ~hasTime, now)
        doSeek == hasTime /\ ~(r.g.suspCnt > 0) /\ ~r.g.isWaiting
        ended == <<"endSuspension">>
                 \o (IF r.synced THEN <<"syncLocalMediaSession">> ELSE <<>>)
    IN IF doSeek
       THEN LET sk == SeekToRun(c, r.g, Max(time, 0), out)
            IN [g |-> sk.g, emitted |-> r.emitted \o sk.emitted,
                calls |-> ended \o <<"seekTo">> \o sk.calls,
                inner |-> sk.result, evt |-> sk.evt, sought |-> TRUE]
       ELSE [g |-> r.g, emitted |-> r.emitted, calls |-> ended,
             inner |-> "none", evt |-> NoEvt, sought |-> FALSE]

\* The seek the callback does not start is never started later: owedSeek
\* keeps the resume positions that were passed to end() and not sought.
EndSuspension(c, hasTime, time) ==
    /\ openSusp[c] > 0
    /\ openSusp' = [openSusp EXCEPT ![c] = @ - 1]
    /\ \E out \in SeekOutcomes(c) :
         LET r == EndSuspensionRun(c, gs[c], hasTime, time, out)
         IN /\ (r.sought /\ out # "none") => connected[c]
            /\ IF r.inner = "ok" THEN Broadcast(r.evt) ELSE NoBroadcast
            /\ gs' = [gs EXCEPT ![c] = r.g]
            /\ owedSeek' = [owedSeek EXCEPT
                              ![c] = IF hasTime /\ ~r.sought
                                     THEN @ \cup {Max(time, 0)} ELSE @]
            /\ step' = St("ok", r.emitted, r.calls, r.inner)
    /\ UNCHANGED <<now, connected, hasInitialized, initPending, allowedRoles, blocked,
                   lastWaitPoint, pendingUpdates, joinedPending, limit,
                   ClientVars>>

\* ---------------------------------------------------------- position update
\* sendPositionUpdate(state) up to the role check it starts.
SendPositionUpdate(c) ==
    /\ \E state \in PlayerStates :
         IF ~hasInitialized[c]
         THEN /\ step' = St("NotInitialized", <<>>, <<>>, "none")
              /\ UNCHANGED pendingUpdates
         ELSE /\ Len(pendingUpdates[c]) < limit.pending
              /\ pendingUpdates' = [pendingUpdates EXCEPT ![c] = Append(@, state)]
              /\ step' = St("ok", <<>>,
                            <<>>, "none")
    /\ UNCHANGED <<now, connected, hasInitialized, initPending, allowedRoles, blocked,
                   lastWaitPoint, gs, openSusp, owedSeek, joinedPending, inbox, missed, limit,
                   sent,
                   ClientVars>>

ResolvePositionUpdateAlwaysSend(c) ==
    /\ pendingUpdates[c] # <<>>
    /\ connected[c]
    /\ pendingUpdates' = [pendingUpdates EXCEPT ![c] = Tail(@)]
    /\ LET evt == CreatePositionUpdateEvent(gs[c], c, Head(pendingUpdates[c]), now)
       IN \E out \in SendOutcomes(c, "positionUpdate") :
             IF out = "ok"
             THEN /\ Broadcast(evt)
                  /\ step' = St("ok", <<>>, <<>>, "none")
             ELSE /\ step' = St("logged", <<>>, <<>>, out)
                  /\ NoBroadcast
    /\ UNCHANGED <<now, connected, hasInitialized, initPending, allowedRoles, blocked,
                   lastWaitPoint, gs, openSusp, owedSeek, joinedPending, limit,
                   ClientVars>>

ResolvePositionUpdateSkipLocal(c) ==
    /\ pendingUpdates[c] # <<>>
    /\ connected[c]
    /\ pendingUpdates' = [pendingUpdates EXCEPT ![c] = Tail(@)]
    /\ LET valid == VerifyRolesAllowed(c, allowedRoles[c])
           evt == CreatePositionUpdateEvent(gs[c], c, Head(pendingUpdates[c]), now)
       IN IF ~valid
          THEN /\ step' = St("local", <<>>, <<>>, "none")
               /\ NoBroadcast
          ELSE /\ \E out \in SendOutcomes(c, "positionUpdate") :
                    IF out = "ok"
                    THEN /\ Broadcast(evt)
                         /\ step' = St("ok", <<>>, <<>>, "none")
                    ELSE /\ step' = St("logged", <<>>, <<>>, out)
                         /\ NoBroadcast
    /\ UNCHANGED <<now, connected, hasInitialized, initPending, allowedRoles, blocked,
                   lastWaitPoint, gs, openSusp, owedSeek, joinedPending, limit,
                   ClientVars>>

\* The pending role checks that can resolve next: with no allowed roles the checks
\* resolve without a request and their continuations run in the order of the calls;
\* with allowed roles each check awaits its own host.getUserInfo() request, and the
\* requests complete in any order.
Resolvable(c) ==
    IF allowedRoles[c] = {} THEN {i \in DOMAIN pendingUpdates[c] : i = 1}
    ELSE DOMAIN pendingUpdates[c]

RemoveAt(s, i) == SubSeq(s, 1, i - 1) \o SubSeq(s, i + 1, Len(s))

\* The role check of a sendPositionUpdate() resolves: the update is sent, or
\* applied to the local record only when the local user is not allowed.
ResolvePositionUpdate(c) ==
    /\ connected[c]
    /\ \E i \in Resolvable(c) :
       /\ pendingUpdates' = [pendingUpdates EXCEPT ![c] = RemoveAt(@, i)]
       /\ LET valid == VerifyRolesAllowed(c, allowedRoles[c])
              evt == CreatePositionUpdateEvent(gs[c], c, pendingUpdates[c][i], now)
          IN IF ~valid
          THEN /\ \E player \in PlayerStates :
                    LET r == HandlePositionUpdate(gs[c], evt, c, player, now, Online, valid)
                    IN /\ gs' = [gs EXCEPT ![c] = r.g]
                       /\ step' = St("local", r.emitted,
                                     <<>>, "none")
               /\ NoBroadcast
          ELSE /\ \E out \in SendOutcomes(c, "positionUpdate") :
                    IF out = "ok"
                    THEN /\ Broadcast(evt)
                         /\ step' = St("ok", <<>>,
                                       <<>>, "none")
                    ELSE /\ step' = St("logged", <<>>,
                                       <<>>, out)
                         /\ NoBroadcast
               /\ UNCHANGED gs
    /\ UNCHANGED <<now, connected, hasInitialized, initPending, allowedRoles, blocked,
                   lastWaitPoint, openSusp, owedSeek, joinedPending, limit,
                   ClientVars>>

\* ---------------------------------------------------------------- receive
\* The receiver createChildren() registered for the event's kind.
Receive(c, e, player) ==
    CASE e.kind = "setTrack" -> HandleSetTrack(gs[c], e)
      [] e.kind = "setTrackData" -> HandleSetTrackData(gs[c], e)
      [] e.kind \in TransportKinds -> HandleTransportCommand(gs[c], e, c, now)
      [] e.kind = "positionUpdate" ->
            HandlePositionUpdate(gs[c], e, c, player, now, Online,
                                 VerifyRolesAllowed(c, allowedRoles[c]))
      [] OTHER -> Result(gs[c], <<>>)

\* The transport hands event e to coordinator c.
Deliver(c, e) ==
    /\ e \in inbox[c]
    /\ initPending[c] = 0
    /\ inbox' = [inbox EXCEPT ![c] = @ \ {e}]
    /\ IF ~ScopeAccepts(c, e)
       THEN /\ step' = St("dropped", <<>>, <<>>, "none")
            /\ missed' = [missed EXCEPT ![c] = TRUE]
            /\ UNCHANGED <<gs, pendingUpdates>>
       ELSE /\ UNCHANGED missed
            /\ IF e.kind = "joined"
               THEN /\ \E state \in PlayerStates :
                         IF hasInitialized[c]
                         THEN /\ Len(pendingUpdates[c]) < limit.pending
                              /\ pendingUpdates' = [pendingUpdates EXCEPT ![c] = Append(@, state)]
                              /\ step' = St("ok", <<>>,
                                            <<>>, "none")
                         ELSE /\ step' = St("logged", <<>>,
                                            <<>>, "NotInitialized")
                              /\ UNCHANGED pendingUpdates
                    /\ UNCHANGED gs
               ELSE /\ \E player \in (IF e.kind = "positionUpdate" THEN PlayerStates
                                      ELSE {[pstate |-> "none", pos |-> 0]}) :
                         LET r == Receive(c, e, player)
                         IN /\ gs' = [gs EXCEPT ![c] = r.g]
                            /\ step' = St("ok", r.emitted, <<>>, "none")
                    /\ UNCHANGED pendingUpdates
    /\ UNCHANGED <<now, connected, hasInitialized, initPending, allowedRoles, blocked,
                   lastWaitPoint, openSusp, owedSeek, joinedPending, limit, sent,
                   ClientVars>>

\* ------------------------------------------------------------ specification
\* Arguments the application passes to the public methods.
SeekTimes == {1, MaxPos}
TrackArgs == {<<"T1", {}>>, <<"T1", {[position |-> 1, maxClients |-> 0]}>>,
              <<"T2", {}>>, <<NoTrack, {}>>}
LifeTrackArgs == {<<"T1", {}>>, <<NoTrack, {}>>}
MemberTrackArgs == {<<"T1", {}>>}
OtherTrackArgs == {<<"T2", {}>>}
CallSeekTimes == {MaxPos}
CallDataArgs == {"d1"}
DataArgs == {"null", "d1"}
SuspensionArgs == {<<FALSE, [position |-> 1, maxClients |-> 0]>>,
                   <<TRUE, [position |-> 1, maxClients |-> 0]>>}
NoWaitArgs == {<<FALSE, [position |-> 1, maxClients |-> 0]>>}
EndArgs == {<<FALSE, 0>>} \cup {<<TRUE, t>> : t \in ResumeTimes}

\* Promise continuations run before the next task: while an initialize() is
\* between createChildren() and its flag, or a role check of a connected
\* client is pending, the transport delivers nothing and no new task starts.
Settled ==
    \A c \in Clients :
        /\ initPending[c] = 0
        /\ connected[c] => pendingUpdates[c] = <<>> /\ joinedPending[c] = 0

\* A public method can be called by the code that called initialize(), in
\* the same task, before the continuation of initialize() runs.
CanCall(c) == Settled \/ initPending[c] > 0

\* The life of a coordinator from its construction on: the newcomer connects,
\* initializes and calls every public method, before, during and after its
\* initialize(), while a member of the session sets the track.
Next ==
    \/ \E c \in {Newcomer} : Settled /\ Connect(c)
    \/ \E c \in {Newcomer} : \E roles \in RoleSets : InitializeBegin(c, roles)
    \/ \E c \in {Newcomer} : InitializeComplete(c)
    \/ \E c \in {Newcomer} : SendJoined(c)
    \/ \E c \in {Newcomer} : CanCall(c) /\ Play(c)
    \/ \E c \in {Newcomer} : CanCall(c) /\ Pause(c)
    \/ \E c \in {Newcomer} : \E time \in SeekTimes : CanCall(c) /\ SeekTo(c, time)
    \/ \E c \in {Newcomer} : \E a \in LifeTrackArgs : CanCall(c) /\ SetTrack(c, a[1], a[2])
    \/ \E c \in Clients \ {Newcomer} : \E a \in MemberTrackArgs :
          CanCall(c) /\ SetTrack(c, a[1], a[2])
    \/ \E c \in {Newcomer} : \E d \in DataArgs : CanCall(c) /\ SetTrackData(c, d)
    \/ \E c \in {Newcomer} : \E a \in SuspensionArgs : CanCall(c) /\ BeginSuspension(c, a[1], a[2])
    \/ \E c \in {Newcomer} : SendPositionUpdate(c)
    \/ \E c \in Clients : ResolvePositionUpdate(c)
    \/ \E c \in Clients : \E e \in inbox[c] : Settled /\ Deliver(c, e)

Spec == Init /\ [][Next]_vars

\* A running session: every coordinator has been initialized with the role
\* list of the application and its runtime is connected.
InitGroup ==
    /\ now = 1
    /\ connected = [c \in Clients |-> TRUE]
    /\ hasInitialized = [c \in Clients |-> TRUE]
    /\ initPending = [c \in Clients |-> 0]
    /\ \E roles \in RoleSets : allowedRoles = [c \in Clients |-> roles]
    /\ blocked = [c \in Clients |-> {}]
    /\ lastWaitPoint = [c \in Clients |-> NoPos]
    /\ gs = [c \in Clients |-> NewGroupState]
    /\ openSusp = [c \in Clients |-> 0]
    /\ owedSeek = [c \in Clients |-> {}]
    /\ pendingUpdates = [c \in Clients |-> <<>>]
    /\ joinedPending = [c \in Clients |-> 0]
    /\ inbox = [c \in Clients |-> {}]
    /\ missed = [c \in Clients |-> FALSE]
    /\ limit = [sends |-> MaxGroupSends, susp |-> MaxSusp, pending |-> MaxPending]
    /\ sent = 0
    /\ step = St("ok", <<>>, <<>>, "none")
    /\ ClientsIdle

\* Events of a running session, in every order of delivery, while the
\* reference clock advances.
NextGroup ==
    \/ Settled /\ Tick
    \/ \E c \in Clients : Settled /\ Play(c)
    \/ \E c \in Clients : \E time \in SeekTimes : Settled /\ SeekTo(c, time)
    \/ \E c \in Clients : \E a \in TrackArgs : Settled /\ SetTrack(c, a[1], a[2])
    \/ \E c \in Clients : Settled /\ SendPositionUpdate(c)
    \/ \E c \in Clients : ResolvePositionUpdate(c)
    \/ \E c \in Clients : \E e \in inbox[c] : Settled /\ Deliver(c, e)

SpecGroup == InitGroup /\ [][NextGroup]_vars

\* Suspensions of a running session in which track T1 is loaded: client "a"
\* suspends and resumes while commands and position updates keep arriving.
Suspender == "a"

InitSusp ==
    /\ now = 1
    /\ connected = [c \in Clients |-> TRUE]
    /\ hasInitialized = [c \in Clients |-> TRUE]
    /\ initPending = [c \in Clients |-> 0]
    /\ allowedRoles = [c \in Clients |-> {}]
    /\ blocked = [c \in Clients |-> {}]
    /\ lastWaitPoint = [c \in Clients |-> NoPos]
    /\ \E w \in {{}, {[position |-> 1, maxClients |-> 0]}} :
          gs = [c \in Clients |-> LoadedGroupState(w)]
    /\ openSusp = [c \in Clients |-> 0]
    /\ owedSeek = [c \in Clients |-> {}]
    /\ pendingUpdates = [c \in Clients |-> <<>>]
    /\ joinedPending = [c \in Clients |-> 0]
    /\ inbox = [c \in Clients |-> {}]
    /\ missed = [c \in Clients |-> FALSE]
    /\ limit = [sends |-> MaxSuspSends, susp |-> MaxSusp, pending |-> MaxPending]
    /\ sent = 0
    /\ step = St("ok", <<>>, <<>>, "none")
    /\ ClientsIdle

\* The suspender seeks, suspends and resumes; the other members play, load
\* another track and report their positions.
NextSusp ==
    \/ \E c \in Clients \ {Suspender} : Settled /\ Play(c)
    \/ \E c \in {Suspender} : \E time \in SeekTimes : Settled /\ SeekTo(c, time)
    \/ \E c \in Clients \ {Suspender} : \E a \in OtherTrackArgs :
          Settled /\ SetTrack(c, a[1], a[2])
    \/ \E c \in {Suspender} : \E a \in SuspensionArgs : Settled /\ BeginSuspension(c, a[1], a[2])
    \/ \E c \in {Suspender} : \E a \in EndArgs : Settled /\ EndSuspension(c, a[1], a[2])
    \/ \E c \in Clients \ {Suspender} : Settled /\ SendPositionUpdate(c)
    \/ \E c \in Clients : ResolvePositionUpdate(c)
    \/ \E c \in Clients : \E e \in inbox[c] : Settled /\ Deliver(c, e)

SpecSusp == InitSusp /\ [][NextSusp]_vars

\* Calls of the public methods on one coordinator, in each of the states the
\* checks of a method distinguish: not initialized, initialized without a
\* track, and with track T1 loaded; with each role list of the session and
\* each setting of the can* flags. The other members listen.
Caller == "a"

InitCalls ==
    /\ now = 1
    /\ connected = [c \in Clients |-> TRUE]
    /\ initPending = [c \in Clients |-> 0]
    /\ blocked = [c \in Clients |-> {}]
    /\ lastWaitPoint = [c \in Clients |-> NoPos]
    /\ \E roles \in RoleSets, g \in {NoGroupState, NewGroupState, LoadedGroupState({})} :
          /\ hasInitialized = [c \in Clients |-> c # Caller \/ g.created]
          /\ allowedRoles = [c \in Clients |-> IF c = Caller /\ ~g.created
                                               THEN {} ELSE roles]
          /\ gs = [c \in Clients |-> IF c = Caller THEN g ELSE LoadedGroupState({})]
    /\ openSusp = [c \in Clients |-> 0]
    /\ owedSeek = [c \in Clients |-> {}]
    /\ pendingUpdates = [c \in Clients |-> <<>>]
    /\ joinedPending = [c \in Clients |-> 0]
    /\ inbox = [c \in Clients |-> {}]
    /\ missed = [c \in Clients |-> FALSE]
    /\ limit = [sends |-> MaxSends, susp |-> MaxLifeSusp, pending |-> MaxPending]
    /\ sent = 0
    /\ step = St("ok", <<>>, <<>>, "none")
    /\ ClientsIdle

\* The application assigns one can* flag at a time.
NextCalls ==
    \/ \E c \in {Caller} : \E f \in Flags :
          SetCan(c, IF f \in blocked[c] THEN blocked[c] \ {f} ELSE blocked[c] \cup {f})
    \/ \E c \in {Caller} : Play(c)
    \/ \E c \in {Caller} : Pause(c)
    \/ \E c \in {Caller} : \E time \in CallSeekTimes : SeekTo(c, time)
    \/ \E c \in {Caller} : \E a \in LifeTrackArgs : SetTrack(c, a[1], a[2])
    \/ \E c \in {Caller} : \E d \in CallDataArgs : SetTrackData(c, d)
    \/ \E c \in {Caller} : \E a \in SuspensionArgs : BeginSuspension(c, a[1], a[2])
    \/ \E c \in Clients : \E e \in inbox[c] : Deliver(c, e)

SpecCalls == InitCalls /\ [][NextCalls]_vars

\* A client joins a running session in which track T1 is loaded: it connects,
\* initializes and sends its joined event; every coordinator that receives
\* the event samples its player and sends a position update.
Joiner == "b"

InitJoin ==
    /\ now = 1
    /\ connected = [c \in Clients |-> c # Joiner]
    /\ hasInitialized = [c \in Clients |-> c # Joiner]
    /\ initPending = [c \in Clients |-> 0]
    /\ \E roles \in RoleSets :
          allowedRoles = [c \in Clients |-> IF c = Joiner THEN {} ELSE roles]
    /\ blocked = [c \in Clients |-> {}]
    /\ lastWaitPoint = [c \in Clients |-> NoPos]
    /\ gs = [c \in Clients |-> IF c = Joiner THEN NoGroupState
                                ELSE LoadedGroupState({})]
    /\ openSusp = [c \in Clients |-> 0]
    /\ owedSeek = [c \in Clients |-> {}]
    /\ pendingUpdates = [c \in Clients |-> <<>>]
    /\ joinedPending = [c \in Clients |-> 0]
    /\ inbox = [c \in Clients |-> {}]
    /\ missed = [c \in Clients |-> FALSE]
    /\ limit = [sends |-> MaxJoinSends, susp |-> MaxLifeSusp, pending |-> MaxPending]
    /\ sent = 0
    /\ step = St("ok", <<>>, <<>>, "none")
    /\ ClientsIdle

NextJoin ==
    \/ Settled /\ Tick
    \/ \E c \in {Joiner} : Settled /\ Connect(c)
    \/ \E c \in {Joiner} : \E roles \in RoleSets : InitializeBegin(c, roles)
    \/ \E c \in {Joiner} : InitializeComplete(c)
    \/ \E c \in {Joiner} : SendJoined(c)
    \/ \E c \in Clients : ResolvePositionUpdate(c)
    \/ \E c \in Clients : \E e \in inbox[c] : Settled /\ Deliver(c, e)

SpecJoin == InitJoin /\ [][NextJoin]_vars

\* Two transport commands race: the first client, with track T1 loaded,
\* sends play, pause or seekTo and the second client sends a seekTo, in the
\* same tick of the clock or a later one; each coordinator receives the two
\* events in either order.  The second client may have joined without the
\* track, and either client may suspend.
First == "a"
Second == "b"

InitRace ==
    /\ now = 1
    /\ connected = [c \in Clients |-> TRUE]
    /\ hasInitialized = [c \in Clients |-> TRUE]
    /\ initPending = [c \in Clients |-> 0]
    /\ allowedRoles = [c \in Clients |-> {}]
    /\ blocked = [c \in Clients |-> {}]
    /\ lastWaitPoint = [c \in Clients |-> NoPos]
    /\ \E g \in {NewGroupState, LoadedGroupState({})} :
          gs = [c \in Clients |-> IF c = Second THEN g ELSE LoadedGroupState({})]
    /\ openSusp = [c \in Clients |-> 0]
    /\ owedSeek = [c \in Clients |-> {}]
    /\ pendingUpdates = [c \in Clients |-> <<>>]
    /\ joinedPending = [c \in Clients |-> 0]
    /\ inbox = [c \in Clients |-> {}]
    /\ missed = [c \in Clients |-> FALSE]
    /\ limit = [sends |-> MaxGroupSends, susp |-> MaxLifeSusp, pending |-> MaxPending]
    /\ sent = 0
    /\ step = St("ok", <<>>, <<>>, "none")
    /\ ClientsIdle

NextRace ==
    \/ Tick
    \/ \E c \in {First} : sent = 0 /\ Play(c)
    \/ \E c \in {First} : sent = 0 /\ Pause(c)
    \/ \E c \in {First} : \E time \in SeekTimes : sent = 0 /\ SeekTo(c, time)
    \/ \E c \in {Second} : \E time \in SeekTimes : sent = 1 /\ SeekTo(c, time)
    \/ \E c \in Clients : \E a \in NoWaitArgs : BeginSuspension(c, a[1], a[2])
    \/ \E c \in Clients : \E e \in inbox[c] : Deliver(c, e)

SpecRace == InitRace /\ [][NextRace]_vars

\* Position updates replayed: one client reports its player's state several
\* times, in the same tick of the clock or in different ones, and every
\* coordinator receives the reports in any order.
Reporter == "b"

InitReplay ==
    /\ now = 1
    /\ connected = [c \in Clients |-> TRUE]
    /\ hasInitialized = [c \in Clients |-> TRUE]
    /\ initPending = [c \in Clients |-> 0]
    /\ allowedRoles = [c \in Clients |-> {}]
    /\ blocked = [c \in Clients |-> {}]
    /\ lastWaitPoint = [c \in Clients |-> NoPos]
    /\ gs = [c \in Clients |-> LoadedGroupState({})]
    /\ openSusp = [c \in Clients |-> 0]
    /\ owedSeek = [c \in Clients |-> {}]
    /\ pendingUpdates = [c \in Clients |-> <<>>]
    /\ joinedPending = [c \in Clients |-> 0]
    /\ inbox = [c \in Clients |-> {}]
    /\ missed = [c \in Clients |-> FALSE]
    /\ limit = [sends |-> MaxGroupSends, susp |-> MaxLifeSusp, pending |-> MaxPending]
    /\ sent = 0
    /\ step = St("ok", <<>>, <<>>, "none")
    /\ ClientsIdle

NextReplay ==
    \/ Tick
    \/ \E c \in {Reporter} : SendPositionUpdate(c)
    \/ \E c \in {Reporter} : ResolvePositionUpdate(c)
    \/ \E c \in Clients : \E e \in inbox[c] : Deliver(c, e)

SpecReplay == InitReplay /\ [][NextReplay]_vars

\* A session in which track T1 with a wait point at position 1 is loaded:
\* the periodic position updates of both clients report whether their player
\* has reached the wait point.
WaitPointArgs == {[position |-> 1, maxClients |-> 0], [position |-> 1, maxClients |-> 1]}

InitWait ==
    /\ now = 1
    /\ connected = [c \in Clients |-> TRUE]
    /\ hasInitialized = [c \in Clients |-> TRUE]
    /\ initPending = [c \in Clients |-> 0]
    /\ \E roles \in RoleSets : allowedRoles = [c \in Clients |-> roles]
    /\ blocked = [c \in Clients |-> {}]
    /\ lastWaitPoint = [c \in Clients |-> NoPos]
    /\ \E w \in WaitPointArgs : gs = [c \in Clients |-> LoadedGroupState({w})]
    /\ openSusp = [c \in Clients |-> 0]
    /\ owedSeek = [c \in Clients |-> {}]
    /\ pendingUpdates = [c \in Clients |-> <<>>]
    /\ joinedPending = [c \in Clients |-> 0]
    /\ inbox = [c \in Clients |-> {}]
    /\ missed = [c \in Clients |-> FALSE]
    /\ limit = [sends |-> MaxGroupSends, susp |-> MaxLifeSusp, pending |-> MaxPending]
    /\ sent = 0
    /\ step = St("ok", <<>>, <<>>, "none")
    /\ ClientsIdle

NextWait ==
    \/ Tick
    \/ \E c \in Clients : SendPositionUpdate(c)
    \/ \E c \in Clients : ResolvePositionUpdate(c)
    \/ \E c \in Clients : \E e \in inbox[c] : Deliver(c, e)

SpecWait == InitWait /\ [][NextWait]_vars

\* Drift: client "b" plays and reports its player's state while the clock
\* advances; client "a" may suspend.  Every coordinator checks its player's
\* position against the group's when it handles a report.
InitDrift ==
    /\ now = 1
    /\ connected = [c \in Clients |-> TRUE]
    /\ hasInitialized = [c \in Clients |-> TRUE]
    /\ initPending = [c \in Clients |-> 0]
    /\ allowedRoles = [c \in Clients |-> {}]
    /\ blocked = [c \in Clients |-> {}]
    /\ lastWaitPoint = [c \in Clients |-> NoPos]
    /\ gs = [c \in Clients |-> LoadedGroupState({})]
    /\ openSusp = [c \in Clients |-> 0]
    /\ owedSeek = [c \in Clients |-> {}]
    /\ pendingUpdates = [c \in Clients |-> <<>>]
    /\ joinedPending = [c \in Clients |-> 0]
    /\ inbox = [c \in Clients |-> {}]
    /\ missed = [c \in Clients |-> FALSE]
    /\ limit = [sends |-> MaxGroupSends, susp |-> MaxLifeSusp, pending |-> MaxPending]
    /\ sent = 0
    /\ step = St("ok", <<>>, <<>>, "none")
    /\ ClientsIdle

NextDrift ==
    \/ Tick
    \/ \E c \in {Reporter} : sent = 0 /\ Play(c)
    \/ \E c \in {Reporter} : pendingUpdates[c] = <<>> /\ SendPositionUpdate(c)
    \/ \E c \in {Reporter} : ResolvePositionUpdate(c)
    \/ \E c \in {Suspender} : \E a \in NoWaitArgs :
          openSusp[c] = 0 /\ BeginSuspension(c, a[1], a[2])
    \/ \E c \in Clients : \E e \in inbox[c] : Deliver(c, e)

SpecDrift == InitDrift /\ [][NextDrift]_vars

\* Order: client "b" hands player states to sendPositionUpdate() faster than the
\* role checks resolve, under any role policy.
InitOrder ==
    /\ now = 1
    /\ connected = [c \in Clients |-> TRUE]
    /\ hasInitialized = [c \in Clients |-> TRUE]
    /\ initPending = [c \in Clients |-> 0]
    /\ \E roles \in RoleSets : allowedRoles = [c \in Clients |-> roles]
    /\ blocked = [c \in Clients |-> {}]
    /\ lastWaitPoint = [c \in Clients |-> NoPos]
    /\ gs = [c \in Clients |-> LoadedGroupState({})]
    /\ openSusp = [c \in Clients |-> 0]
    /\ owedSeek = [c \in Clients |-> {}]
    /\ pendingUpdates = [c \in Clients |-> <<>>]
    /\ joinedPending = [c \in Clients |-> 0]
    /\ inbox = [c \in Clients |-> {}]
    /\ missed = [c \in Clients |-> FALSE]
    /\ limit = [sends |-> MaxGroupSends, susp |-> MaxLifeSusp, pending |-> MaxPending + 1]
    /\ sent = 0
    /\ step = St("ok", <<>>, <<>>, "none")
    /\ ClientsIdle

NextOrder ==
    \/ \E c \in {Reporter} : SendPositionUpdate(c)
    \/ \E c \in {Reporter} : ResolvePositionUpdate(c)
    \/ \E c \in Clients : \E e \in inbox[c] : Deliver(c, e)

SpecOrder == InitOrder /\ [][NextOrder]_vars

\* ------------------------------------------------------------ RoleVerifier
\* UserMeetingRole values, the role lists a caller passes or the host
\* reports, and the client ids a caller passes.
MeetingRoles == {"Presenter", "Attendee"}

RECURSIVE RoleLists(_)
RoleLists(n) ==
    IF n = 0 THEN {<<>>}
    ELSE RoleLists(n - 1) \cup
         {Append(l, r) : l \in {x \in RoleLists(n - 1) : Len(x) = n - 1}, r \in MeetingRoles}

ClientIds == {"", "a"}

\* roles.indexOf(role)
IndexOf(roles, role) ==
    IF \E k \in DOMAIN roles : roles[k] = role
    THEN (CHOOSE k \in DOMAIN roles : roles[k] = role /\ \A j \in 1..(k - 1) : roles[j] # role) - 1
    ELSE -1

\* verifyRolesAllowed(clientId, allowedRoles) up to its await: throws without
\* a client id, returns true for an empty list, else asks the host.
VerifyBegin ==
    /\ verify.pc = "called"
    /\ verify' = IF verify.clientId = ""
                 THEN [verify EXCEPT !.pc = "done", !.result = "throws"]
                 ELSE IF Len(verify.allowedRoles) > 0
                      THEN [verify EXCEPT !.pc = "getUserInfo"]
                      ELSE [verify EXCEPT !.pc = "done", !.result = "true"]
    /\ UNCHANGED <<CoordinatorVars, IntervalVars, JoinVars, DdsVars, ProxyVars, HostVars>>

VerifyGetUserInfoAllowNoInfo ==
    /\ verify.pc = "getUserInfo"
    /\ verify' = IF verify.hasInfo
                 THEN [verify EXCEPT !.pc = "loop", !.i = 0, !.roles = verify.info]
                 ELSE [verify EXCEPT !.pc = "done", !.result = "true"]
    /\ UNCHANGED <<CoordinatorVars, IntervalVars, JoinVars, DdsVars, ProxyVars, HostVars>>

\* host.getUserInfo(clientId) resolves: roles = info?.roles ?? [].
VerifyGetUserInfo ==
    /\ verify.pc = "getUserInfo"
    /\ verify' = [verify EXCEPT !.pc = "loop", !.i = 0,
                                !.roles = IF verify.hasInfo THEN verify.info ELSE <<>>]
    /\ UNCHANGED <<CoordinatorVars, IntervalVars, JoinVars, DdsVars, ProxyVars, HostVars>>

\* One turn of the loop over allowedRoles.
VerifyLoop ==
    /\ verify.pc = "loop"
    /\ verify' = IF verify.i < Len(verify.allowedRoles)
                 THEN IF IndexOf(verify.roles, verify.allowedRoles[verify.i + 1]) >= 0
                      THEN [verify EXCEPT !.pc = "done", !.result = "true"]
                      ELSE [verify EXCEPT !.i = verify.i + 1]
                 ELSE [verify EXCEPT !.pc = "done", !.result = "false"]
    /\ UNCHANGED <<CoordinatorVars, IntervalVars, JoinVars, DdsVars, ProxyVars, HostVars>>

\* The coordinators' variables where no coordinator is in use.
CoordinatorsUnused ==
    /\ now = 1
    /\ connected = [c \in Clients |-> FALSE]
    /\ hasInitialized = [c \in Clients |-> FALSE]
    /\ initPending = [c \in Clients |-> 0]
    /\ allowedRoles = [c \in Clients |-> {}]
    /\ blocked = [c \in Clients |-> {}]
    /\ lastWaitPoint = [c \in Clients |-> NoPos]
    /\ gs = [c \in Clients |-> NoGroupState]
    /\ openSusp = [c \in Clients |-> 0]
    /\ owedSeek = [c \in Clients |-> {}]
    /\ pendingUpdates = [c \in Clients |-> <<>>]
    /\ joinedPending = [c \in Clients |-> 0]
    /\ inbox = [c \in Clients |-> {}]
    /\ missed = [c \in Clients |-> FALSE]
    /\ limit = [sends |-> 0, susp |-> 0, pending |-> 0]
    /\ sent = 0
    /\ step = St("ok", <<>>, <<>>, "none")

\* A call of verifyRolesAllowed with each client id and role list, against a
\* host that knows the client with each role list or does not know it.
InitVerify ==
    /\ CoordinatorsUnused
    /\ intervals = DefaultIntervals
    /\ JoinsIdle
    /\ ProxyIdle
    /\ HostsIdle
    /\ DdsIdle
    /\ \E id \in ClientIds, allowed \in RoleLists(MaxRoles), known \in BOOLEAN,
          info \in RoleLists(MaxRoles) :
          /\ ~known => info = <<>>
          /\ verify = [pc |-> "called", clientId |-> id, allowedRoles |-> allowed,
                       hasInfo |-> known, info |-> info, roles |-> <<>>, i |-> 0,
                       result |-> "none"]

NextVerify ==
    \/ VerifyBegin
    \/ VerifyGetUserInfo
    \/ VerifyLoop

SpecVerify == InitVerify /\ [][NextVerify]_vars

\* ------------------------------------------------------- interval properties
\* Values an application assigns to maxPlaybackDrift and
\* positionUpdateInterval, in seconds.
SecondsValues == -1..MaxSeconds

\* TimeInterval: set seconds(value)
SetSeconds(value) == value * 1000

\* set maxPlaybackDrift(value)
SetMaxPlaybackDrift(value) ==
    /\ intervals' = [intervals EXCEPT !.maxPlaybackDrift = SetSeconds(value)]
    /\ UNCHANGED <<CoordinatorVars, VerifyVars, JoinVars, DdsVars, ProxyVars, HostVars>>

\* set positionUpdateInterval(value)
SetPositionUpdateInterval(value) ==
    /\ intervals' = [intervals EXCEPT !.positionUpdateInterval = SetSeconds(value)]
    /\ UNCHANGED <<CoordinatorVars, VerifyVars, JoinVars, DdsVars, ProxyVars, HostVars>>

InitIntervals ==
    /\ CoordinatorsUnused
    /\ ClientsIdle

NextIntervals ==
    \/ \E value \in SecondsValues : SetMaxPlaybackDrift(value)
    \/ \E value \in SecondsValues : SetPositionUpdateInterval(value)

SpecIntervals == InitIntervals /\ [][NextIntervals]_vars

\* ---------------------------------------------------------- LiveShareClient
\* LiveShareClient.maxContainerLookupTries
MaxContainerLookupTries == 3

\* The id AzureClient gives the container client c creates.
NewContainerId(c) == SenderRank(c)

\* What host.getFluidContainerId() can answer: the mapped container id once
\* the context has one; before that, that the caller should create the
\* container, or neither, with or without a time to retry after.
LookupAnswers ==
    IF containerId # NoContainer THEN {"containerId"}
    ELSE {"shouldCreate", "retryAfter", "notFound"}

\* joinContainer() up to the first call of the host's container id mapping.
JoinContainer(c) ==
    /\ joins[c].pc = "idle"
    /\ joins' = [joins EXCEPT ![c].pc = "lookup"]
    /\ UNCHANGED <<CoordinatorVars, VerifyVars, IntervalVars, containerId, DdsVars, ProxyVars, HostVars>>

\* getOrCreateContainer(tries): host.getFluidContainerId() resolves.
GetOrCreateContainer(c) ==
    /\ joins[c].pc = "lookup"
    /\ \E answer \in LookupAnswers :
          LET j == [joins[c] EXCEPT !.lookups = @ + 1]
          IN joins' = [joins EXCEPT ![c] =
                CASE answer = "shouldCreate" -> [j EXCEPT !.pc = "create"]
                  [] answer = "containerId" ->
                        [j EXCEPT !.pc = "returned", !.created = "false",
                                  !.container = containerId]
                  [] answer = "retryAfter" /\ j.tries < MaxContainerLookupTries ->
                        [j EXCEPT !.tries = @ + 1]
                  [] OTHER -> [j EXCEPT !.pc = "timedOut"]]
    /\ UNCHANGED <<CoordinatorVars, VerifyVars, IntervalVars, containerId, DdsVars, ProxyVars, HostVars>>

\* createNewContainer(): client.createContainer() resolves and the
\* application's callback runs on the new container.
CreateNewContainer(c) ==
    /\ joins[c].pc = "create"
    /\ joins' = [joins EXCEPT ![c].pc = "attach", ![c].container = NewContainerId(c),
                              ![c].callbacks = @ + 1]
    /\ UNCHANGED <<CoordinatorVars, VerifyVars, IntervalVars, containerId, DdsVars, ProxyVars, HostVars>>

\* container.attach() resolves with the new container's id.
AttachContainer(c) ==
    /\ joins[c].pc = "attach"
    /\ joins' = [joins EXCEPT ![c].pc = "setId"]
    /\ UNCHANGED <<CoordinatorVars, VerifyVars, IntervalVars, containerId, DdsVars, ProxyVars, HostVars>>

\* The variant in which a client whose id was not added keeps the container it created.
SetFluidContainerIdKeepOwn(c) ==
    /\ joins[c].pc = "setId"
    /\ IF containerId = NoContainer
       THEN /\ containerId' = joins[c].container
            /\ joins' = [joins EXCEPT ![c].pc = "returned", ![c].created = "true"]
       ELSE /\ joins' = [joins EXCEPT ![c].pc = "returned", ![c].created = "false"]
            /\ UNCHANGED containerId
    /\ UNCHANGED <<CoordinatorVars, VerifyVars, IntervalVars, DdsVars, ProxyVars, HostVars>>

SetFluidContainerIdIgnoreState(c) ==
    /\ joins[c].pc = "setId"
    /\ joins' = [joins EXCEPT ![c].pc = "returned", ![c].created = "true"]
    /\ containerId' = IF containerId = NoContainer THEN joins[c].container ELSE containerId
    /\ UNCHANGED <<CoordinatorVars, VerifyVars, IntervalVars, DdsVars, ProxyVars, HostVars>>

\* host.setFluidContainerId(newContainerId) resolves: the host maps the
\* context to the first id it is given and answers every later caller with
\* that id; a client whose id was not added disposes of its container and
\* gets the mapped one.
SetFluidContainerId(c) ==
    /\ joins[c].pc = "setId"
    /\ IF containerId = NoContainer
       THEN /\ containerId' = joins[c].container
            /\ joins' = [joins EXCEPT ![c].pc = "returned", ![c].created = "true"]
       ELSE /\ joins' = [joins EXCEPT ![c].pc = "returned", ![c].created = "false",
                                      ![c].container = containerId]
            /\ UNCHANGED containerId
    /\ UNCHANGED <<CoordinatorVars, VerifyVars, IntervalVars, DdsVars, ProxyVars, HostVars>>

InitJoinContainer ==
    /\ CoordinatorsUnused
    /\ ClientsIdle

NextJoinContainer ==
    \/ \E c \in Clients : JoinContainer(c)
    \/ \E c \in Clients : GetOrCreateContainer(c)
    \/ \E c \in Clients : CreateNewContainer(c)
    \/ \E c \in Clients : AttachContainer(c)
    \/ \E c \in Clients : SetFluidContainerId(c)

SpecJoinContainer == InitJoinContainer /\ [][NextJoinContainer]_vars

\* ------------------------------------------------------------------ FluidTurboClient.getDDS

\* The container's initial objects: the two the turbo schema always holds and the one the
\* clients joined with.
InitialObjectKeys == {"TURBO_STATE_MAP", "TURBO_DYNAMIC_OBJECTS", "TEST-LIVE-EVENT-KEY"}

ObjectKeys == {"TEST-MAP-KEY", "TEST-LIVE-EVENT-KEY"}

ObjectClasses == {"SharedMap", "LiveEvent"}

\* `<${objectClass.name}>:${objectKey}`
UniqueKey(objectClass, objectKey) == <<"<", objectClass, ">:", objectKey>>

\* results.container.initialObjects[objectKey]
InitialDDS(objectKey) == <<"initialObjects", objectKey>>

\* The object the DynamicObjectManager answers with for a unique key.
DynamicDDS(uniqueKey) == <<"dynamicObjects", uniqueKey>>

\* waitUntilConnected(): the promise kept in _awaitConnectedPromise is returned when there
\* is one; otherwise a new one is kept, resolved at once when the container is connected
\* and at the next "connected" event when it is not.
WaitUntilConnected(d) ==
    IF d.awaitConnectedPromise # "undefined" THEN d.awaitConnectedPromise
    ELSE IF d.connectionState = "Connected" THEN "resolved"
    ELSE "pending"

\* The continuation of an await on a resolved promise is queued: it runs before the next
\* event of the container is handled.
ContinuationQueued(c) ==
    dds[c].pc = "waitUntilConnected" /\ dds[c].awaitConnectedPromise = "resolved"

\* The container's "connected" event: its listener resolves the pending promise.
ContainerConnected(c) ==
    /\ dds[c].results
    /\ dds[c].connectionState = "Disconnected"
    /\ dds' = [dds EXCEPT ![c] =
                  [@ EXCEPT !.connectionState = "Connected",
                            !.awaitConnectedPromise =
                                IF @ = "pending" THEN "resolved" ELSE @]]
    /\ UNCHANGED <<CoordinatorVars, VerifyVars, IntervalVars, JoinVars, dynamicObjects, ProxyVars, HostVars>>

\* The container loses its connection.
ContainerDisconnected(c) ==
    /\ dds[c].results
    /\ dds[c].connectionState = "Connected"
    /\ ~ContinuationQueued(c)
    /\ dds' = [dds EXCEPT ![c].connectionState = "Disconnected"]
    /\ UNCHANGED <<CoordinatorVars, VerifyVars, IntervalVars, JoinVars, dynamicObjects, ProxyVars, HostVars>>

\* getDDS up to `await this.waitUntilConnected()`: it throws without join results.
GetDDS(c, objectKey, objectClass) ==
    /\ dds[c].pc \in {"idle", "returned"}
    /\ dds[c].calls < MaxGetDDSCalls
    /\ dds' = [dds EXCEPT ![c] =
                  IF ~dds[c].results
                  THEN [@ EXCEPT !.pc = "threw", !.calls = @ + 1]
                  ELSE [@ EXCEPT !.pc = "waitUntilConnected", !.calls = @ + 1,
                                 !.objectKey = objectKey, !.objectClass = objectClass,
                                 !.awaitConnectedPromise = WaitUntilConnected(dds[c]),
                                 !.returned = <<>>, !.touched = "no",
                                 !.asked = 0, !.callbacks = 0]]
    /\ UNCHANGED <<CoordinatorVars, VerifyVars, IntervalVars, JoinVars, dynamicObjects, ProxyVars, HostVars>>

\* The variant that does not look the key up in the initial objects.
GetDDSConnectedNoInitialTest(c) ==
    /\ ContinuationQueued(c)
    /\ dds' = [dds EXCEPT ![c] =
                  [@ EXCEPT !.pc = "getDDS", !.touched = dds[c].connectionState]]
    /\ UNCHANGED <<CoordinatorVars, VerifyVars, IntervalVars, JoinVars, dynamicObjects, ProxyVars, HostVars>>

\* The awaited promise has resolved: an initial object of that key is returned,
\* otherwise the DynamicObjectManager is asked.
GetDDSConnected(c) ==
    /\ ContinuationQueued(c)
    /\ dds' = [dds EXCEPT ![c] =
                  IF dds[c].objectKey \in InitialObjectKeys
                  THEN [@ EXCEPT !.pc = "returned", !.returned = InitialDDS(dds[c].objectKey)]
                  ELSE [@ EXCEPT !.pc = "getDDS", !.touched = dds[c].connectionState]]
    /\ UNCHANGED <<CoordinatorVars, VerifyVars, IntervalVars, JoinVars, dynamicObjects, ProxyVars, HostVars>>

\* The DynamicObjectManager's response: the object of the unique key, and whether this
\* call created it; onDidFirstInitialize is invoked when it says so.
DynamicObjectsGetDDS(c, created) ==
    /\ dds[c].pc = "getDDS"
    /\ LET uniqueKey == UniqueKey(dds[c].objectClass, dds[c].objectKey)
       IN /\ dynamicObjects' = dynamicObjects \cup {uniqueKey}
          /\ dds' = [dds EXCEPT ![c] =
                        [@ EXCEPT !.pc = "returned", !.returned = DynamicDDS(uniqueKey),
                                  !.asked = @ + 1,
                                  !.callbacks = IF created THEN @ + 1 ELSE @]]
    /\ UNCHANGED <<CoordinatorVars, VerifyVars, IntervalVars, JoinVars, ProxyVars, HostVars>>

InitGetDDS ==
    /\ CoordinatorsUnused
    /\ verify = NoVerify
    /\ intervals = DefaultIntervals
    /\ JoinsIdle
    /\ ProxyIdle
    /\ HostsIdle
    /\ dynamicObjects = {}
    /\ \E joined \in SUBSET Clients :
          dds = [c \in Clients |-> [NoGetDDS EXCEPT !.results = c \in joined]]

NextGetDDS ==
    \/ \E c \in Clients, objectKey \in ObjectKeys, objectClass \in ObjectClasses :
          GetDDS(c, objectKey, objectClass)
    \/ \E c \in Clients : ContainerConnected(c)
    \/ \E c \in Clients : ContainerDisconnected(c)
    \/ \E c \in Clients : GetDDSConnected(c)
    \/ \E c \in Clients, created \in BOOLEAN : DynamicObjectsGetDDS(c, created)

SpecGetDDS == InitGetDDS /\ [][NextGetDDS]_vars

\* ------------------------------------------------- getLiveShareContainerSchemaProxy

\* A loadable class: its name, its static LiveEnabled and TypeName, and, for a class
\* made by proxyLiveDataObjectClass, the class it extends and which creation it is.
Class(name, live, typeName) ==
    [name |-> name, LiveEnabled |-> live, TypeName |-> typeName, base |-> "", serial |-> 0]

\* Two live classes of one TypeName, a live class of another, and a class that is not
\* live-enabled.
LoadableClasses ==
    { Class("LivePresence", TRUE, "LivePresence"),
      Class("LivePresenceCopy", TRUE, "LivePresence"),
      Class("LiveEvent", TRUE, "LiveEvent"),
      Class("SharedMap", FALSE, "") }

RECURSIVE ClassLists(_)
ClassLists(n) ==
    IF n = 0 THEN {<<>>}
    ELSE ClassLists(n - 1) \cup
         {Append(l, k) : l \in {m \in ClassLists(n - 1) : Len(m) = n - 1},
                         k \in LoadableClasses}

\* value.LiveEnabled === true
IsLiveDataObject(value) == value.LiveEnabled = TRUE

\* A new class extending BaseClass with its TypeName: every call makes another class.
ProxyLiveDataObjectClass(BaseClass, serial) ==
    [name |-> "DynamicClass", LiveEnabled |-> BaseClass.LiveEnabled,
     TypeName |-> BaseClass.TypeName, base |-> BaseClass.name, serial |-> serial]

\* existingProxyRegistries.get(typeName): the entries of that key (one at most).
RegistryGet(registry, typeName) == {e[2] : e \in {x \in registry : x[1] = typeName}}

\* existingProxyRegistries.set(typeName, NewProxy)
RegistrySet(registry, typeName, NewProxy) ==
    {x \in registry : x[1] # typeName} \cup {<<typeName, NewProxy>>}

\* The variant that makes a proxy for every live class it is given.
GetLiveDataObjectClassProxyNoRegistry(ObjectClass, registry, proxied) ==
    IF IsLiveDataObject(ObjectClass)
    THEN LET NewProxy == ProxyLiveDataObjectClass(ObjectClass, proxied + 1)
         IN [class |-> NewProxy,
             registry |-> RegistrySet(registry, ObjectClass.TypeName, NewProxy),
             proxied |-> proxied + 1]
    ELSE [class |-> ObjectClass, registry |-> registry, proxied |-> proxied]

\* getLiveDataObjectClassProxy: the class to use, the registry and the number of
\* proxies made so far after the call.
GetLiveDataObjectClassProxy(ObjectClass, registry, proxied) ==
    IF IsLiveDataObject(ObjectClass)
    THEN LET typeName == ObjectClass.TypeName
             CheckExisting == RegistryGet(registry, typeName)
         IN IF CheckExisting # {}
            THEN [class |-> CHOOSE k \in CheckExisting : TRUE, registry |-> registry,
                  proxied |-> proxied]
            ELSE LET NewProxy == ProxyLiveDataObjectClass(ObjectClass, proxied + 1)
                 IN [class |-> NewProxy,
                     registry |-> RegistrySet(registry, typeName, NewProxy),
                     proxied |-> proxied + 1]
    ELSE [class |-> ObjectClass, registry |-> registry, proxied |-> proxied]

\* classes.map(getLiveDataObjectClassProxy) from index i on, in order, with one registry.
RECURSIVE MapClassProxy(_, _, _, _)
MapClassProxy(classes, i, registry, proxied) ==
    IF i > Len(classes) THEN [classes |-> <<>>, registry |-> registry, proxied |-> proxied]
    ELSE LET r == GetLiveDataObjectClassProxy(classes[i], registry, proxied)
             rest == MapClassProxy(classes, i + 1, r.registry, r.proxied)
         IN [classes |-> <<r.class>> \o rest.classes, registry |-> rest.registry,
             proxied |-> rest.proxied]

\* getLiveShareContainerSchemaProxy(schema, liveRuntime): the initial objects first,
\* then the dynamic object types, with the registry of this call.
GetLiveShareContainerSchemaProxy ==
    /\ schemaProxy.pc = "called"
    /\ LET initial == MapClassProxy(schemaProxy.initialObjects, 1, {}, 0)
           dynamic == MapClassProxy(schemaProxy.dynamicObjectTypes, 1, initial.registry,
                                    initial.proxied)
       IN schemaProxy' = [schemaProxy EXCEPT !.pc = "returned",
                              !.newInitialObjects = initial.classes,
                              !.newDynamicObjectTypes = dynamic.classes,
                              !.existingProxyRegistries = dynamic.registry,
                              !.proxied = dynamic.proxied]
    /\ UNCHANGED <<CoordinatorVars, VerifyVars, IntervalVars, JoinVars, DdsVars, HostVars>>

InitSchemaProxy ==
    /\ CoordinatorsUnused
    /\ verify = NoVerify
    /\ intervals = DefaultIntervals
    /\ JoinsIdle
    /\ DdsIdle
    /\ HostsIdle
    /\ \E initialObjects \in ClassLists(MaxSchemaLen),
          dynamicObjectTypes \in ClassLists(MaxSchemaLen) :
          schemaProxy = [NoSchemaProxy EXCEPT !.pc = "called",
                            !.initialObjects = initialObjects,
                            !.dynamicObjectTypes = dynamicObjectTypes]

NextSchemaProxy == GetLiveShareContainerSchemaProxy

SpecSchemaProxy == InitSchemaProxy /\ [][NextSchemaProxy]_vars

\* ------------------------------------------------------------- LiveShareClient.host

\* The hosts applications construct their clients with.
Hosts == {"hostA", "hostB"}

\* The methods of the host a LiveShareClient calls while joining.
HostMethods == {"getFluidTenantInfo", "getFluidContainerId", "setFluidContainerId",
                "registerClientId"}

\* new LiveShareClient(host): a missing host throws; otherwise the decorated host is
\* assigned to the static LiveShareClient.host.
NewLiveShareClient(c, host) ==
    /\ clientHosts[c].constructed = "no"
    /\ IF host = NoHost
       THEN /\ clientHosts' = [clientHosts EXCEPT ![c].constructed = "threw"]
            /\ UNCHANGED liveShareHost
       ELSE /\ clientHosts' = [clientHosts EXCEPT ![c].constructed = "yes",
                                                  ![c].host = host]
            /\ liveShareHost' = Decorated(host)
    /\ UNCHANGED <<CoordinatorVars, VerifyVars, IntervalVars, JoinVars, DdsVars, ProxyVars>>

\* Client c calls LiveShareClient.host.<method>(): the call reaches the host the static
\* property holds at that moment.
HostCall(c, method) ==
    /\ clientHosts[c].constructed = "yes"
    /\ clientHosts[c].calls < MaxHostCalls
    /\ clientHosts' = [clientHosts EXCEPT ![c].calls = @ + 1,
                                          ![c].used = @ \cup {liveShareHost.host}]
    /\ UNCHANGED <<CoordinatorVars, VerifyVars, IntervalVars, JoinVars, DdsVars, ProxyVars,
                   liveShareHost>>

InitHosts == CoordinatorsUnused /\ ClientsIdle

NextHosts ==
    \/ \E c \in Clients, host \in Hosts \cup {NoHost} : NewLiveShareClient(c, host)
    \/ \E c \in Clients, method \in HostMethods : HostCall(c, method)

SpecHosts == InitHosts /\ [][NextHosts]_vars

\* ------------------------------------------------------------------ claims
\* Some call of play(), pause(), seekTo(), setTrack() or setTrackData() by
\* coordinator c runs in this step.
CommandCall(c) ==
    \/ Play(c)
    \/ Pause(c)
    \/ \E time \in SeekTimes : SeekTo(c, time)
    \/ \E a \in TrackArgs : SetTrack(c, a[1], a[2])
    \/ \E d \in DataArgs : SetTrackData(c, d)

\* Some public method of coordinator c runs in this step.
PublicCall(c) ==
    \/ CommandCall(c)
    \/ \E a \in SuspensionArgs : BeginSuspension(c, a[1], a[2])
    \/ SendPositionUpdate(c)

\* Coordinator c runs in this step: a public method, the end() of a
\* suspension, the continuation of a position update or a receiver.
CoordinatorStep(c) ==
    \/ PublicCall(c)
    \/ \E a \in EndArgs : EndSuspension(c, a[1], a[2])
    \/ ResolvePositionUpdate(c)
    \/ \E e \in inbox[c] : Deliver(c, e)

Rejections == {"NotInitialized", "NoTrack", "Blocked", "RoleDenied", "TransportError"}

SendFailures == {"RoleDenied", "TransportError"}

IsSuspended(g) == g.suspCnt > 0

\* The part of a group state the application can observe and peers share.
Shared(g) == <<g.track, g.trackData, g.records, IsSuspended(g), g.isWaiting>>

Emits(name) == \E i \in 1..Len(step.emitted) : step.emitted[i].name = name

Calls(name) == \E i \in 1..Len(step.calls) : step.calls[i] = name

Quiescent ==
    /\ sent > 0
    /\ \A c \in Clients :
          /\ inbox[c] = {}
          /\ pendingUpdates[c] = <<>>
          /\ ~missed[c]
          /\ allowedRoles[c] = {}

\* C2: once every coordinator has processed every event, whatever the order
\* each received them in, all coordinators hold the same current track (the
\* first of the three things the claim says they agree on).
C2_Convergence ==
    Quiescent => \A c, d \in Clients : gs[c].track = gs[d].track

\* C3: a coordinator that is waiting at a wait point, before and after one
\* of its steps, emits no play action to its player in that step.
C3_WaitPointSafety ==
    [][\A c \in Clients :
          (gs[c].isWaiting /\ gs'[c].isWaiting /\ CoordinatorStep(c))
          => \A i \in 1..Len(step'.emitted) : step'.emitted[i].name # "play"]_vars

\* C4: a coordinator that has an open suspension before and after one of its
\* steps emits no action to its player in that step.
C4_SuspendedEmitsNothing ==
    [][\A c \in Clients :
          (openSusp[c] > 0 /\ openSusp'[c] > 0 /\ CoordinatorStep(c))
          => step'.emitted = <<>>]_vars

\* A suspended coordinator has just received the setTrack of another track:
\* its current track changed and its player was told nothing.
C4_Witness ==
    /\ openSusp[Suspender] > 0
    /\ gs[Suspender].track # gs[Suspender].loaded
    /\ step = St("ok", <<>>, <<>>, "none")

\* C5 as claimed: a resume position passed to end() while the coordinator
\* was still suspended or waiting is sought once it is neither.
C5_SeekIssuedLater ==
    \A c \in Clients :
        owedSeek[c] # {} => IsSuspended(gs[c]) \/ gs[c].isWaiting

\* C5 as amended: end(time) calls seekTo(max(time, 0)) in the same call exactly
\* when the coordinator is then neither suspended nor waiting; otherwise it
\* sends nothing, and no later step seeks the position.
C5_SeekOnlyAtEnd ==
    [][\A c \in Clients : \A a \in EndArgs :
          EndSuspension(c, a[1], a[2])
          => /\ (\E i \in 1..Len(step'.calls) : step'.calls[i] = "seekTo")
                   <=> (a[1] /\ ~IsSuspended(gs'[c]) /\ ~gs'[c].isWaiting)
             /\ (IsSuspended(gs'[c]) \/ gs'[c].isWaiting) => sent' = sent
             /\ owedSeek[c] \subseteq owedSeek'[c]]_vars

\* end(time) has just called seekTo().
C5_Witness ==
    /\ Calls("endSuspension")
    /\ Calls("seekTo")
    /\ step.inner = "ok"

\* C6 as claimed: ending the only open suspension with a resume position
\* performs sync_local and then calls seekTo().
C6_SyncThenSeek ==
    [][\A c \in Clients : \A t \in ResumeTimes :
          (openSusp[c] = 1 /\ EndSuspension(c, TRUE, t))
          => /\ Len(step'.calls) >= 3
             /\ step'.calls[2] = "syncLocalMediaSession"
             /\ step'.calls[3] = "seekTo"]_vars

\* C6 as amended: ending the only open suspension with a resume position
\* performs sync_local first and then, unless the coordinator is waiting at
\* a wait point, calls seekTo(); when it is waiting no seek is made.
C6_SyncThenSeekUnlessWaiting ==
    [][\A c \in Clients : \A t \in ResumeTimes :
          (openSusp[c] = 1 /\ EndSuspension(c, TRUE, t))
          => /\ Len(step'.calls) >= 2
             /\ step'.calls[1] = "endSuspension"
             /\ step'.calls[2] = "syncLocalMediaSession"
             /\ IF gs'[c].isWaiting
                THEN Len(step'.calls) = 2
                ELSE Len(step'.calls) >= 3 /\ step'.calls[3] = "seekTo"]_vars

\* The only open suspension has just ended with a resume position: the
\* player was re-synchronized and the seek was sent.
C6_Witness ==
    /\ openSusp[Suspender] = 0
    /\ step.calls = <<"endSuspension", "syncLocalMediaSession", "seekTo">>
    /\ Emits("seekTo")

\* C7 as claimed: every seekTo() that fails has called syncLocalMediaSession.
C7_EveryFailureSyncs ==
    [][\A c \in Clients : \A time \in SeekTimes :
          (SeekTo(c, time) /\ step'.result # "ok")
          => \E i \in 1..Len(step'.calls) : step'.calls[i] = "syncLocalMediaSession"]_vars

\* C7 as amended: a seekTo() whose send fails (role denied or transport
\* error) calls syncLocalMediaSession before it throws; a seekTo() rejected
\* by its own checks (not initialized, no track, blocked) calls nothing.
C7_SendFailureSyncs ==
    [][\A c \in Clients : \A time \in SeekTimes :
          SeekTo(c, time)
          => /\ step'.result \in SendFailures
                   => step'.calls = <<"syncLocalMediaSession", "throw">>
             /\ step'.result \notin SendFailures => step'.calls = <<>>]_vars

\* A seekTo() has just failed in its send and re-synchronized the player.
C7_Witness ==
    /\ step.result \in SendFailures
    /\ step.calls = <<"syncLocalMediaSession", "throw">>
    /\ Emits("seekTo")

\* C8: a command method whose send fails reports the failure to its caller
\* and broadcasts nothing; a call that reports success has broadcast its
\* event; and a caller without an allowed role always gets RoleDenied.
C8_SendFailureSurfaces ==
    [][\A c \in Clients :
          CommandCall(c)
          => /\ step'.result # "ok" => inbox' = inbox /\ sent' = sent
             /\ step'.result = "ok" => sent' = sent + 1
             /\ (/\ ~VerifyRolesAllowed(c, allowedRoles[c])
                 /\ hasInitialized[c]
                 /\ blocked[c] = {}
                 /\ gs[c].track # NoTrack)
                => step'.result = "RoleDenied"]_vars

\* A command of a caller without an allowed role has just been refused.
C8_Witness ==
    /\ step.result = "RoleDenied"
    /\ step.calls = <<>>
    /\ sent = 0

\* C9: a public call that is rejected leaves the current track, the track
\* data, the peer records, isSuspended and isWaiting of every coordinator
\* unchanged.
C9_RejectedCallKeepsState ==
    [][\A c \in Clients :
          (step'.result \in Rejections /\ PublicCall(c))
          => \A d \in Clients : Shared(gs'[d]) = Shared(gs[d])]_vars

\* A call has just been rejected because its flag is off.
C9_Witness ==
    /\ step.result = "Blocked"
    /\ \E c \in Clients : blocked[c] # {} /\ gs[c].track # NoTrack

\* C10: play(), pause(), seekTo(), setTrack(), setTrackData(),
\* beginSuspension() and sendPositionUpdate() called on a coordinator whose
\* initialize() has not completed fail with the not-initialized error and
\* send no event.
C10_NotInitializedFails ==
    [][\A c \in Clients :
          (~hasInitialized[c] /\ PublicCall(c))
          => /\ step'.result = "NotInitialized"
             /\ inbox' = inbox
             /\ sent' = sent]_vars

\* A call on a coordinator whose initialize() has started and not completed
\* has just failed.
C10_Witness ==
    /\ step.result = "NotInitialized"
    /\ ~hasInitialized[Newcomer]
    /\ initPending[Newcomer] > 0

\* Nothing was broadcast in this step.
NothingSent == inbox' = inbox /\ sent' = sent

\* C11: on an initialized coordinator with no track loaded, play(), pause(),
\* seekTo() and beginSuspension() fail with the no-track error, send no
\* event, open no suspension and leave isSuspended false when it was.
C11_NoTrackFails ==
    [][\A c \in Clients :
          (/\ hasInitialized[c]
           /\ gs[c].track = NoTrack
           /\ \/ Play(c)
              \/ Pause(c)
              \/ \E time \in SeekTimes : SeekTo(c, time)
              \/ \E a \in SuspensionArgs : BeginSuspension(c, a[1], a[2]))
          => /\ step'.result = "NoTrack"
             /\ NothingSent
             /\ openSusp'[c] = openSusp[c]
             /\ ~IsSuspended(gs[c]) => ~IsSuspended(gs'[c])]_vars

\* A call on an initialized coordinator without a track has just failed.
C11_Witness ==
    /\ step.result = "NoTrack"
    /\ hasInitialized[Caller]
    /\ gs[Caller].track = NoTrack
    /\ ~IsSuspended(gs[Caller])
    /\ sent = 0

\* What the calls of c in this step whose can* flag is false must do: fail
\* and send nothing; play(), pause() and seekTo(), which need a track, with
\* trackError, setTrack() and setTrackData() with the blocked error.
FlagOffOutcome(c, trackError) ==
    /\ ("canPlayPause" \in blocked[c] /\ (Play(c) \/ Pause(c)))
          => step'.result = trackError /\ NothingSent
    /\ ("canSeek" \in blocked[c] /\ \E time \in SeekTimes : SeekTo(c, time))
          => step'.result = trackError /\ NothingSent
    /\ ("canSetTrack" \in blocked[c] /\ \E a \in TrackArgs : SetTrack(c, a[1], a[2]))
          => step'.result = "Blocked" /\ NothingSent
    /\ ("canSetTrackData" \in blocked[c] /\ \E d \in DataArgs : SetTrackData(c, d))
          => step'.result = "Blocked" /\ NothingSent

\* C12 as claimed: on an initialized coordinator every command method whose
\* can* flag is false fails with the blocked error and sends no event.
C12_FlagOffBlocked ==
    [][\A c \in Clients :
          hasInitialized[c] => FlagOffOutcome(c, "Blocked")]_vars

\* C12 as amended: play(), pause() and seekTo() test the track before the
\* flag, so with their flag false they fail with the no-track error when no
\* track is loaded and with the blocked error otherwise; setTrack() and
\* setTrackData() fail with the blocked error; no event is sent in any case.
C12_FlagOffBlockedAfterTrack ==
    [][\A c \in Clients :
          hasInitialized[c]
          => FlagOffOutcome(c, IF gs[c].track = NoTrack THEN "NoTrack"
                               ELSE "Blocked")]_vars

\* A call with a track loaded has just been blocked by its flag.
C12_Witness ==
    /\ step.result = "Blocked"
    /\ hasInitialized[Caller]
    /\ gs[Caller].track # NoTrack
    /\ blocked[Caller] # {}
    /\ sent = 0

\* The peer record a sampled player state leaves when it is stored at time t.
RecordOf(state, t, wait) ==
    [present |-> TRUE, pstate |-> state.pstate, pos |-> state.pos, ts |-> t,
     wait |-> wait]

\* C13: when the role check of a sendPositionUpdate() resolves for a local
\* user the role gate denies, no event is sent and the coordinator's own
\* record carries the current timestamp; it holds the sampled player state
\* unless a record with that very timestamp was stored already.
C13_DeniedUpdateStaysLocal ==
    [][\A c \in Clients :
          (~VerifyRolesAllowed(c, allowedRoles[c]) /\ ResolvePositionUpdate(c))
          => LET old == gs[c].records[c]
                 new == gs'[c].records[c]
             IN /\ NothingSent
                /\ new.present /\ new.ts = now
                /\ (~old.present \/ old.ts < now)
                      => \E i \in DOMAIN pendingUpdates[c] :
                            LET state == pendingUpdates[c][i]
                            IN /\ pendingUpdates'[c] = RemoveAt(pendingUpdates[c], i)
                               /\ new = RecordOf(state, now,
                                                 ReachedWaitPoint(gs[c], state))]_vars

\* The position update of a denied local user has just been stored in its
\* own record and sent to nobody.
C13_Witness ==
    /\ step.result = "local"
    /\ ~VerifyRolesAllowed(Newcomer, allowedRoles[Newcomer])
    /\ gs[Newcomer].records[Newcomer].present
    /\ gs[Newcomer].records[Newcomer].pstate = "playing"
    /\ sent = 0

\* Coordinator c receives a joined event in this step and calls
\* sendPositionUpdate() with the state its player reports.
JoinedReceived(c) ==
    /\ \E e \in inbox[c] : e.kind = "joined" /\ Deliver(c, e)
    /\ \E state \in PlayerStates : pendingUpdates'[c] = Append(pendingUpdates[c], state)

\* The position update of c that resolves in this step is broadcast: every
\* listening coordinator is handed an event with the sampled player state.
UpdateBroadcast(c) ==
    /\ sent' = sent + 1
    /\ \E i \in DOMAIN pendingUpdates[c] :
          /\ pendingUpdates'[c] = RemoveAt(pendingUpdates[c], i)
          /\ \A d \in Listeners :
                \E e \in inbox'[d] \ inbox[d] :
                    /\ e.kind = "positionUpdate" /\ e.sender = c
                    /\ e.pstate = pendingUpdates[c][i].pstate
                    /\ e.pos = pendingUpdates[c][i].pos

\* C14 as claimed: every joined event a coordinator receives makes it send a
\* position update with its current player state (the transport permitting).
C14_JoinedAnswered ==
    [][\A c \in Clients :
          /\ (\E e \in inbox[c] : e.kind = "joined" /\ Deliver(c, e))
                => JoinedReceived(c)
          /\ (ResolvePositionUpdate(c) /\ step'.inner # "TransportError")
                => UpdateBroadcast(c)]_vars

\* C14 as amended: every joined event a coordinator receives makes it call
\* sendPositionUpdate() with its current player state; the update is
\* broadcast only if the local user holds an allowed role (and the transport
\* accepts the send), otherwise no event is sent and the newcomer does not
\* learn the state of this peer.
C14_JoinedAnsweredIfAllowed ==
    [][\A c \in Clients :
          /\ (\E e \in inbox[c] : e.kind = "joined" /\ Deliver(c, e))
                => JoinedReceived(c)
          /\ ResolvePositionUpdate(c)
                => IF /\ VerifyRolesAllowed(c, allowedRoles[c])
                      /\ step'.inner # "TransportError"
                   THEN UpdateBroadcast(c)
                   ELSE NothingSent]_vars

\* A member has just answered the joined event of the newcomer: its position
\* update is on its way to the newcomer.
C14_Witness ==
    /\ step.result = "ok"
    /\ \E e \in inbox[Joiner] :
          e.kind = "positionUpdate" /\ e.sender # Joiner /\ e.pstate = "playing"
    /\ hasInitialized[Joiner]

\* C15: of the initialize() calls on one coordinator, the first creates the
\* event targets and the group state and every other one fails with the
\* already-initialized error and creates nothing.
C15_InitializedOnce ==
    [][\A c \in Clients : \A roles \in RoleSets :
          InitializeBegin(c, roles)
          => IF gs[c].created
             THEN step'.result = "AlreadyInitialized" /\ gs'[c] = gs[c]
             ELSE step'.result = "ok" /\ gs'[c].created]_vars

\* C16: isSuspended is true exactly while a suspension returned by
\* beginSuspension() has not been ended, and an end() re-synchronizes the
\* player with the group exactly when it ends the last open suspension.
C16_SuspendedWhileOpen ==
    /\ [](\A c \in Clients : IsSuspended(gs[c]) <=> openSusp[c] > 0)
    /\ [][\A c \in Clients : \A a \in EndArgs :
             EndSuspension(c, a[1], a[2])
             => ((\E i \in 1..Len(step'.calls) :
                      step'.calls[i] = "syncLocalMediaSession")
                 <=> openSusp'[c] = 0)]_vars

\* One of two open suspensions has just ended: the coordinator is still
\* suspended and its player was not re-synchronized.
C16_Witness ==
    /\ openSusp[Suspender] = 1
    /\ IsSuspended(gs[Suspender])
    /\ step.calls = <<"endSuspension">>
    /\ step.emitted = <<>>

\* C17: a received setTrack event replaces the current track exactly when it
\* is greater under (timestamp, sender_id) than the event that set the
\* current track; an older event never replaces the track of a newer one.
\* (Two events of one sender with one timestamp are not ordered by the rule
\* and are left out.)
C17_NewestTrackWins ==
    [][\A c \in Clients : \A e \in inbox[c] :
          (/\ e.kind = "setTrack"
           /\ <<e.ts, e.sender>> # <<gs[c].trackTs, gs[c].trackSender>>
           /\ ScopeAccepts(c, e)
           /\ Deliver(c, e))
          => gs'[c].track = IF Newer(e.ts, e.sender, gs[c].trackTs, gs[c].trackSender)
                            THEN e.track ELSE gs[c].track]_vars

\* Both commands of the race were sent and received everywhere, every
\* coordinator has the track loaded and nobody suspended.
RaceOver ==
    /\ sent = 2
    /\ \A c \in Clients : inbox[c] = {} /\ gs[c].track = "T1" /\ openSusp[c] = 0

\* A seekTo arrives at coordinator c with the timestamp of the command c
\* applied last, from the other sender.
SeekTie(c, e) ==
    /\ e.kind = "seekTo"
    /\ e.ts = gs[c].cmdTs
    /\ e.sender # gs[c].cmdSender
    /\ e.track = gs[c].track
    /\ ~IsSuspended(gs[c])

\* C18: when two peers send seekTo events with the same timestamp, every
\* coordinator ends at the same position whatever the arrival order, and the
\* position is the one sent by the peer with the smaller sender id: once both
\* commands of a race are received everywhere the coordinators agree on the
\* winning command and on their own position, and a seekTo that ties with the
\* command applied last replaces it exactly if its sender id is the smaller.
C18_SeekRace ==
    /\ [](RaceOver => \A c, d \in Clients :
             /\ gs[c].cmdSender = gs[d].cmdSender
             /\ gs[c].cmdPos = gs[d].cmdPos
             /\ gs[c].records[c].pos = gs[d].records[d].pos)
    /\ [][\A c \in Clients : \A e \in inbox[c] :
             (SeekTie(c, e) /\ Deliver(c, e))
             => /\ gs'[c].cmdPos = IF SenderRank(e.sender) < SenderRank(gs[c].cmdSender)
                                   THEN e.pos ELSE gs[c].cmdPos
                /\ gs'[c].records[c].pos = gs'[c].cmdPos]_vars

\* Both seekTo events were sent in the first tick with different positions;
\* the last delivery was the first client's seekTo arriving after the second
\* client's one and replacing it.
C18_Witness ==
    /\ RaceOver
    /\ now = 1
    /\ \A c \in Clients : gs[c].cmdSender = First /\ gs[c].cmdPos = gs[c].records[c].pos
    /\ step.emitted = <<Act("seekTo", gs[First].cmdPos, "T1")>>

\* The position updates coordinator c has yet to receive.
UpdatesPending(c) == {e \in inbox[c] : e.kind = "positionUpdate"}

\* The group state of coordinator c after its positionUpdate receiver handled
\* the events of the sequence es, starting from group state g.
RECURSIVE Replayed(_, _, _, _)
Replayed(g, es, c, player) ==
    IF es = <<>> THEN g
    ELSE Replayed(HandlePositionUpdate(g, Head(es), c, player, now, Online,
                                       VerifyRolesAllowed(c, allowedRoles[c])).g,
                  Tail(es), c, player)

\* The record an update leaves for its sender.
RecordOfUpdate(e) ==
    [present |-> TRUE, pstate |-> e.pstate, pos |-> e.pos, ts |-> e.ts, wait |-> e.wait]

\* The records allowed for the sender of the updates e1 and e2 once
\* both are handled: the one the coordinator held if it is at least as late
\* as both, else that of an update with the latest timestamp.
LatestRecords(g, e1, e2) ==
    LET old == g.records[e1.sender]
        top == IF e1.ts >= e2.ts THEN e1.ts ELSE e2.ts
    IN IF old.present /\ old.ts >= top
       THEN {old}
       ELSE {RecordOfUpdate(e) : e \in {x \in {e1, e2} : x.ts = top}}

\* C19: position updates are idempotent and order-insensitive: handling a
\* pending positionUpdate twice leaves the group state that handling it once
\* leaves, and handling two pending updates of one peer in either order
\* leaves the record of the update with the latest timestamp (the same
\* record in both orders when the timestamps differ).
C19_UpdatesReplay ==
    \A c \in Clients : \A player \in PlayerStates :
       /\ \A e \in UpdatesPending(c) :
             Replayed(gs[c], <<e, e>>, c, player) = Replayed(gs[c], <<e>>, c, player)
       /\ \A e1, e2 \in UpdatesPending(c) :
             (e1.sender = e2.sender /\ e1 # e2)
             => LET r12 == Replayed(gs[c], <<e1, e2>>, c, player).records[e1.sender]
                    r21 == Replayed(gs[c], <<e2, e1>>, c, player).records[e1.sender]
                IN /\ r12 \in LatestRecords(gs[c], e1, e2)
                   /\ r21 \in LatestRecords(gs[c], e1, e2)
                   /\ e1.ts # e2.ts => r12 = r21

\* A coordinator has two updates of one peer to receive, sent at different
\* times with different positions, both later than the record it holds.
C19_Witness ==
    \E c \in Clients : \E e1, e2 \in UpdatesPending(c) :
       /\ e1.sender = e2.sender
       /\ e1.ts < e2.ts
       /\ e1.pos # e2.pos
       /\ gs[c].records[e1.sender].present => gs[c].records[e1.sender].ts < e1.ts

\* C20: a received play, pause or seekTo event whose track is not the
\* coordinator's current track, or that arrives while the local client is
\* suspended, produces no local action and leaves the coordinator's own
\* position record as it was.
C20_StaleOrSuspendedIgnored ==
    [][\A c \in Clients : \A e \in inbox[c] :
          (/\ e.kind \in TransportKinds
           /\ e.track # gs[c].track \/ IsSuspended(gs[c])
           /\ ScopeAccepts(c, e)
           /\ Deliver(c, e))
          => /\ step'.emitted = <<>>
             /\ gs'[c].records[c] = gs[c].records[c]]_vars

\* The first client's command reached both coordinators and neither applied
\* it: the first client is suspended, the second one has no track loaded.
C20_Witness ==
    /\ sent = 1
    /\ \A c \in Clients : inbox[c] = {} /\ gs[c].cmdTs = 0
    /\ IsSuspended(gs[First]) /\ gs[First].track = "T1"
    /\ ~IsSuspended(gs[Second]) /\ gs[Second].track = NoTrack
    /\ step = St("ok", <<>>, <<>>, "none")

\* Coordinator c receives the accepted setTrack event e for a track other
\* than its current one.
OtherTrackReceived(c, e) ==
    /\ e.kind = "setTrack"
    /\ e.track # gs[c].track
    /\ ScopeAccepts(c, e)
    /\ Deliver(c, e)

\* C21 as stated: receiving an accepted setTrack event whose track differs
\* from the current one makes the coordinator emit load_track and then
\* pause_at(0), and leaves track data null and no wait point consumed.
C21_LoadThenPause ==
    [][\A c \in Clients : \A e \in inbox[c] :
          OtherTrackReceived(c, e)
          => /\ step'.emitted = <<Act("loadTrack", 0, e.track), Act("pause", 0, e.track)>>
             /\ gs'[c].trackData = "null"
             /\ gs'[c].consumed = {}]_vars

\* C21 amended: receiving an accepted setTrack event whose track differs from
\* the current one makes the event's track the current one with track data
\* null and no wait point consumed; a coordinator that is not suspended
\* emits load_track and then pause_at(0), a suspended one emits nothing.
C21_LoadThenPauseUnlessSuspended ==
    [][\A c \in Clients : \A e \in inbox[c] :
          OtherTrackReceived(c, e)
          => /\ step'.emitted = IF IsSuspended(gs[c]) THEN <<>>
                                ELSE <<Act("loadTrack", 0, e.track),
                                       Act("pause", 0, e.track)>>
             /\ gs'[c].track = e.track
             /\ gs'[c].trackData = "null"
             /\ gs'[c].consumed = {}]_vars

\* A coordinator that is not suspended has just loaded track T2 in place of
\* T1 and paused at 0.
C21_Witness ==
    \E c \in Clients :
       /\ gs[c].track = "T2"
       /\ ~IsSuspended(gs[c])
       /\ step.emitted = <<Act("loadTrack", 0, "T2"), Act("pause", 0, "T2")>>

\* Every position update sent has been received and handled everywhere.
UpdatesSettled ==
    \A c \in Clients : inbox[c] = {} /\ pendingUpdates[c] = <<>>

\* Every online peer has reached wait point p: the record its own
\* coordinator holds of it says so.
AllReached(p) ==
    \A c \in Online : gs[c].records[c].present /\ gs[c].records[c].wait = p

\* C22: a wait at a wait point is released once all online peers have
\* reached it: when every online peer has reported that it reached the wait
\* point and every report sent has been handled, no coordinator remains
\* waiting.
C22_WaitReleased ==
    \A p \in 0..MaxPos :
       (UpdatesSettled /\ AllReached(p)) => \A c \in Clients : ~gs[c].isWaiting

\* What coordinator c's positionUpdate receiver does with the pending update
\* e when the local player's state is player.
UpdateHandled(c, e, player) ==
    HandlePositionUpdate(gs[c], e, c, player, now, Online,
                         VerifyRolesAllowed(c, allowedRoles[c]))

\* The update e is later than the record coordinator c holds of its sender.
UpdateApplies(c, e) ==
    ~(gs[c].records[e.sender].present /\ e.ts <= gs[c].records[e.sender].ts)

Catchups(acts) == {acts[i] : i \in {k \in DOMAIN acts : acts[k].name = "catchup"}}

\* C23: drift correction: whenever a coordinator applies a position update
\* and some peer is playing, it emits a catchup to the group's projected
\* position if its player is playing, it is not suspended and the player's
\* position differs from the projected one by more than maxPlaybackDrift,
\* and emits no catchup otherwise; a received transport command is turned
\* into a catchup only if it is more than maxPlaybackDrift ahead of the
\* coordinator's own projected position.
C23_DriftCorrection ==
    /\ [](\A c \in Clients : \A e \in UpdatesPending(c) : \A player \in PlayerStates :
            UpdateApplies(c, e)
            => LET r == UpdateHandled(c, e, player)
                   gp == GroupPosition(r.g, now)
               IN Catchups(r.emitted) =
                     IF /\ player.pstate = "playing"
                        /\ ~IsSuspended(gs[c])
                        /\ PlayingPeers(r.g) # {}
                        /\ Abs(player.pos - gp) > MaxPlaybackDrift
                     THEN {Act("catchup", gp, gs[c].track)}
                     ELSE {})
    /\ [][\A c \in Clients : \A e \in inbox[c] :
             (e.kind \in TransportKinds /\ Deliver(c, e) /\ Catchups(step'.emitted) # {})
             => /\ ~IsSuspended(gs[c])
                /\ e.pos - Project(gs[c].records[c], now) > MaxPlaybackDrift
                /\ step'.emitted = <<Act("catchup", e.pos, gs[c].track)>>]_vars

\* A coordinator whose player was more than maxPlaybackDrift away from the
\* playing peers has just emitted a catchup to the group's position.
C23_Witness ==
    \E c \in Clients :
       /\ PlayingPeers(gs[c]) # {}
       /\ ~IsSuspended(gs[c])
       /\ gs[c].records[Reporter].ts = now
       /\ Act("catchup", GroupPosition(gs[c], now), "T1") \in Catchups(step.emitted)

Range(l) == {l[k] : k \in DOMAIN l}

\* C24: verifyRolesAllowed(clientId, allowedRoles) with a non-empty clientId
\* returns true exactly when allowedRoles is empty or the roles the host
\* reports for the client contain a role of allowedRoles; a client the host
\* has no user info for has no roles.
C24_VerifyRolesAllowed ==
    (verify.pc = "done" /\ verify.clientId # "")
    => verify.result =
          IF \/ verify.allowedRoles = <<>>
             \/ /\ verify.hasInfo
                /\ Range(verify.allowedRoles) \cap Range(verify.info) # {}
          THEN "true" ELSE "false"

\* The call did not find the first allowed role among the two roles the host
\* reports for the client, and found the second.
C24_Witness ==
    /\ verify.pc = "done"
    /\ verify.result = "true"
    /\ verify.i = 1
    /\ Len(verify.info) = 2

\* C25: in every reachable state maxPlaybackDrift and positionUpdateInterval
\* are strictly positive.
C25_IntervalsPositive ==
    intervals.maxPlaybackDrift > 0 /\ intervals.positionUpdateInterval > 0

\* The clients whose join returned with the created flag v.
JoinedWith(v) == {c \in Clients : joins[c].pc = "returned" /\ joins[c].created = v}

\* C26: when several clients join one context, in any interleaving of their
\* joins, at most one join returns created = true, and when every join has
\* returned exactly one has created = true and all the others created = false.
C26_OneCreator ==
    /\ Cardinality(JoinedWith("true")) <= 1
    /\ (\A c \in Clients : joins[c].pc = "returned")
       => /\ Cardinality(JoinedWith("true")) = 1
          /\ JoinedWith("false") = Clients \ JoinedWith("true")

\* Both clients were told to create the container, both created one, and
\* both joins have returned.
C26_Witness ==
    /\ \A c \in Clients : joins[c].pc = "returned" /\ joins[c].callbacks = 1
    /\ containerId # NoContainer

\* C27: the onContainerFirstCreated callback is called only once per
\* context: a client whose join returns created = false never has its
\* callback invoked, and the callbacks invoked on all clients number at most
\* one.
C27_CallbackOnlyForCreator ==
    /\ \A c \in JoinedWith("false") : joins[c].callbacks = 0
    /\ \A c, d \in Clients : (joins[c].callbacks > 0 /\ joins[d].callbacks > 0) => c = d

\* C28: container lookup is bounded: a client asks the host for the container
\* id at most maxContainerLookupTries times, and a join that has timed out
\* has asked that many times or fewer.
C28_LookupsBounded ==
    \A c \in Clients : joins[c].lookups <= MaxContainerLookupTries

\* C30: a getDDS call whose key names an initial object returns that initial object, and
\* neither asks the DynamicObjectManager for it nor invokes onDidFirstInitialize; no
\* dynamic object is ever made under an initial object's key.
C30_InitialObjectsNotDynamic ==
    /\ \A c \in Clients :
          dds[c].objectKey \in InitialObjectKeys
          => /\ dds[c].asked = 0
             /\ dds[c].callbacks = 0
             /\ dds[c].pc \in {"waitUntilConnected", "returned"}
             /\ dds[c].pc = "returned" => dds[c].returned = InitialDDS(dds[c].objectKey)
    /\ \A objectClass \in ObjectClasses, objectKey \in InitialObjectKeys :
          UniqueKey(objectClass, objectKey) \notin dynamicObjects

\* Both clients asked for an initial object and got it, while the manager holds nothing.
C30_Witness ==
    /\ \A c \in Clients :
          /\ dds[c].pc = "returned"
          /\ dds[c].objectKey = "TEST-LIVE-EVENT-KEY"
          /\ dds[c].returned = InitialDDS("TEST-LIVE-EVENT-KEY")
    /\ dynamicObjects = {}

\* C34: the DynamicObjectManager is only asked while the container is connected: a getDDS
\* call that has gone past waitUntilConnected() did so with the container connected.
C34_AskedOnlyWhileConnected ==
    \A c \in Clients : dds[c].touched # "Disconnected"

\* C35: every client whose join has returned holds the container id the host has mapped
\* for the context, so all of them hold the same one; and a client whose
\* setFluidContainerId() finds the context already mapped leaves the container it created
\* for the mapped one.
C35_SameContainer ==
    /\ [](\A c \in Clients :
            joins[c].pc = "returned"
            => /\ containerId # NoContainer
               /\ joins[c].container = containerId)
    /\ [][\A c \in Clients :
             (SetFluidContainerId(c) /\ containerId # NoContainer)
             => /\ joins[c].container = NewContainerId(c)
                /\ joins'[c].container = containerId
                /\ joins'[c].container # NewContainerId(c)]_vars

\* Both clients created a container, both joins returned, and the one that lost holds
\* the winner's container.
C35_Witness ==
    \E c, d \in Clients :
       /\ c # d
       /\ joins[c].pc = "returned" /\ joins[c].created = "true"
       /\ joins[d].pc = "returned" /\ joins[d].created = "false"
       /\ joins[d].callbacks = 1
       /\ joins[d].container = NewContainerId(c)

\* The classes given to a getLiveShareContainerSchemaProxy call and the classes it
\* returned for them, position by position.
SchemaIn == schemaProxy.initialObjects \o schemaProxy.dynamicObjectTypes
SchemaOut == schemaProxy.newInitialObjects \o schemaProxy.newDynamicObjectTypes

\* C36: in the result of one getLiveShareContainerSchemaProxy call, the occurrences of
\* one TypeName among the live-enabled classes all got the same proxy class, one proxy
\* was made per TypeName, and a class that is not live-enabled comes back unchanged.
C36_OneProxyPerTypeName ==
    schemaProxy.pc = "returned"
    => /\ Len(SchemaOut) = Len(SchemaIn)
       /\ \A p \in DOMAIN SchemaIn :
             IF IsLiveDataObject(SchemaIn[p])
             THEN /\ SchemaOut[p].serial > 0
                  /\ SchemaOut[p].TypeName = SchemaIn[p].TypeName
                  /\ \A q \in DOMAIN SchemaIn :
                        (IsLiveDataObject(SchemaIn[q])
                         /\ SchemaIn[q].TypeName = SchemaIn[p].TypeName)
                        => SchemaOut[q] = SchemaOut[p]
             ELSE SchemaOut[p] = SchemaIn[p]
       /\ schemaProxy.proxied =
             Cardinality({SchemaIn[p].TypeName :
                             p \in {q \in DOMAIN SchemaIn : IsLiveDataObject(SchemaIn[q])}})

\* A schema whose initial objects and dynamic object types both hold a class of one
\* TypeName, next to a class that is not live-enabled, has been proxied.
C36_Witness ==
    /\ schemaProxy.pc = "returned"
    /\ \E p \in DOMAIN schemaProxy.initialObjects,
          q \in DOMAIN schemaProxy.dynamicObjectTypes :
          /\ schemaProxy.initialObjects[p].name = "LivePresence"
          /\ schemaProxy.dynamicObjectTypes[q].name = "LivePresenceCopy"
          /\ schemaProxy.newDynamicObjectTypes[q] = schemaProxy.newInitialObjects[p]
    /\ \E p \in DOMAIN SchemaIn : ~IsLiveDataObject(SchemaIn[p])
    /\ schemaProxy.proxied = 1

\* C37: the joined event is sent only by a coordinator whose runtime is connected, and at
\* most once: where only joined events and the position updates that answer them are
\* broadcast, a joined event that goes out is the first event broadcast at all.
C37_JoinedOnceWhenConnected ==
    [][\A c \in Clients :
          SendJoined(c)
          => /\ connected[c]
             /\ sent' # sent => sent = 0]_vars

\* C38: position updates leave a coordinator in the order of the sendPositionUpdate()
\* calls: the update that is sent, or applied to the local record, is the one of the
\* earliest call whose role check is still pending.
C38_UpdatesLeaveInCallOrder ==
    [][\A c \in Clients :
          ResolvePositionUpdate(c) => pendingUpdates'[c] = Tail(pendingUpdates[c])]_vars

\* C39: every call a LiveShareClient makes to its host reaches the host that client was
\* constructed with.
C39_OwnHost ==
    \A c \in Clients : clientHosts[c].used \subseteq {clientHosts[c].host}

\* C40: when the seekTo() started by Suspension.end(resume_position) fails, the end()
\* call fails with that error.
C40_EndSurfacesSeekFailure ==
    [][\A c \in Clients : \A a \in EndArgs :
          (EndSuspension(c, a[1], a[2]) /\ step'.inner \notin {"none", "ok"})
          => step'.result = step'.inner]_vars

====
